---- MODULE Spec2Model ----
(***************************************************************************)
(* remix-cache: the cache coordination engine.                             *)
(*                                                                         *)
(* Part 1 models CircuitBreaker (circuit-breaker.ts) driven by concurrent  *)
(* execute(primary, fallback) calls.  Part 2 models CacheDefinitionImpl    *)
(* (definition.ts) get/set over the shared store, the Deduplicator, the    *)
(* per-instance LocalCache and the breaker of each instance.               *)
(*                                                                         *)
(* Time is a discrete clock `now`; one tick is the unit of every duration  *)
(* (ttl, stale window, breaker timeout).                                   *)
(***************************************************************************)
EXTENDS Integers, Sequences, FiniteSets, TLC

(***************************************************************************)
(* Bounds of the model.                                                    *)
(***************************************************************************)
\* new CircuitBreaker(threshold, timeout, halfOpenRequests): the values used
Threshold == 2
Timeout == 2
HalfOpenRequests == 2
\* execute() calls the breaker harness starts in one behaviour
MaxExec == 6
\* concurrent callers of execute()
ExecCallers == 2
\* last clock value of the breaker harness
MaxTimeCB == 2
\* fetchAndCache()/set() executions in one behaviour of the cache
MaxTasks == 3
\* store outages in one behaviour
MaxOutages == 1
\* largest serverless version number
MaxVersion == 2
\* VersionedCache: expiry of a version counter, in seconds (24 hours)
VersionTTL == 86400
\* LocalCache: the capacity without config.maxSize
DefaultMaxSize == 1000
\* last clock value of the cache behaviours
MaxTime == 3
\* concurrent get() calls of SpecGet
GetCallers == 2
\* SpecTTL: the configured ttl, in ticks, and the number of set()/get() calls
TTL == 2
TTLCallers == 3
\* SpecSWR: the configured ttl and stale window, in ticks, and the number of
\* set()/get() calls
SwrTTL == 1
StaleWindow == 2
SWRCallers == 3
\* SpecMiss: the get() calls made one after the other on a key never set
MissCallers == 2
\* SpecInv: the calls made one after the other; the days the clock may jump
InvCallers == 3
MaxDays == 1
\* SpecPubSub: the calls made one after the other on the two instances
PubSubCallers == 3
\* SpecSetPub: the calls made one after the other on the two instances
SetPubCallers == 3
\* SpecCascade: the calls made one after the other
CascadeCallers == 4
\* SpecBulk: the calls made one after the other; the longest list a bulk call
\* is made with
BulkCallers == 3
MaxLen == 2
\* SpecLocal: the largest maxSize a LocalCache is constructed with and the
\* calls made on it
MaxSize == 2
MaxOps == 5


(***************************************************************************)
(* Part 1.  CircuitBreaker                                                 *)
(***************************************************************************)
VARIABLES
    now,        \* Date.now()
    breaker,    \* the CircuitBreaker object of the instance
    calls,      \* execute() calls of the harness: their position and result
    nexec,      \* execute() calls started so far
    errorLog,   \* what the error handler was invoked with: count and last error
    lastEv,     \* the last step of an execute() call (history)
    consecFail, \* primary failures completed since the last primary success
    hoSucc,     \* primary successes completed in half-open since it was
                \* entered and since the last primary failure (history)
    hoStarts,   \* primary calls started since half-open was last entered,
                \* the one that entered it included (history)
    lcache      \* a LocalCache on its own: its capacity, its entries in the
                \* order of their use, and (history) the keys in the order
                \* they were set, the calls made and the last call


VARIABLES
    cfg,        \* the cache and definition config of the behaviour
    storeUp,    \* TRUE while calls to the shared store succeed
    outages,    \* times the store went down so far
    store,      \* server mode: key -> entry in the shared store
    vers,       \* serverless: key -> version counter (-1: no counter key)
    vstore,     \* serverless: key -> version -> entry
    patIdx,     \* pattern index: pairs <<index key, cache key>>
    tagIdx,     \* tag index: pairs <<tag, cache key>>
    local,      \* instance -> key -> LocalCache slot
    pending,    \* instance -> key -> the task registered in Deduplicator (0: none)
    breakers,   \* instance -> CircuitBreaker
    tasks,      \* the fetchAndCache()/set() executions started so far
    callers,    \* the get()/set() calls: their position and outcome
    errEvents   \* 'error' events emitted

VARIABLES
    versExp,    \* serverless: key -> expiry of the version counter (-1: none)
    bus,        \* instance -> the invalidation messages on their way to it
    subscribed, \* instance -> TRUE once its subscriber connection is subscribed
    invEvents,  \* instance -> the 'invalidate' events it emitted
    writes,     \* payload writes to the shared store so far
    setEvents   \* 'set' events emitted so far

busVars == <<bus, subscribed, invEvents>>
countVars == <<writes, setEvents>>
cacheVars == <<cfg, storeUp, outages, store, vers, vstore, patIdx, tagIdx, local,
               pending, breakers, tasks, callers, errEvents, versExp, bus,
               subscribed, invEvents, writes, setEvents>>
vars == <<now, breaker, calls, nexec, errorLog, lastEv, consecFail, hoSucc,
          hoStarts,
          lcache,
          cfg, storeUp, outages, store, vers, vstore, patIdx, tagIdx, local,
          pending, breakers, tasks, callers, errEvents, versExp, bus,
          subscribed, invEvents, writes, setEvents>>
harnessVars == <<breaker, calls, nexec, errorLog, lastEv, consecFail, hoSucc,
                 hoStarts,
                 lcache>>

\* values thrown by primary: an Error instance, or some other thrown value
PrimaryErrors == {"pError", "pThrown"}
FallbackOutcomes == {"fbValue", "fbError"}
IsErrorInstance(e) == e \in {"pError", "storeError", "fetchError"}

\* constructor: state = 'closed', failures = 0, nextAttempt = 0,
\* halfOpenSuccesses = 0, onError undefined
NewBreaker ==
    [state |-> "closed", failures |-> 0, nextAttempt |-> 0,
     halfOpenSuccesses |-> 0, onError |-> FALSE]

\* setErrorHandler(handler)
SetHandler(b) == [b EXCEPT !.onError = TRUE]

\* execute(), lines 27-34: TRUE when the call goes straight to fallback
ShortCircuitMutNever(b, t) == FALSE
ShortCircuit(b, t) == b.state = "open" /\ t < b.nextAttempt

\* execute(), lines 27-34: the breaker after the synchronous prologue
Gate(b, t) ==
    IF b.state = "open" /\ ~(t < b.nextAttempt)
    THEN [b EXCEPT !.state = "half-open", !.halfOpenSuccesses = 0]
    ELSE b

\* onSuccess()
OnSuccess(b) ==
    IF b.state = "half-open"
    THEN IF b.halfOpenSuccesses + 1 >= HalfOpenRequests
         THEN [b EXCEPT !.halfOpenSuccesses = @ + 1, !.state = "closed",
                        !.failures = 0]
         ELSE [b EXCEPT !.halfOpenSuccesses = @ + 1]
    ELSE [b EXCEPT !.failures = 0]

\* onFailure()
OnFailureMutNoOpen(b, t) == [b EXCEPT !.failures = @ + 1]
OnFailure(b, t) ==
    IF b.failures + 1 >= Threshold
    THEN [b EXCEPT !.failures = @ + 1, !.state = "open",
                   !.nextAttempt = t + Timeout]
    ELSE [b EXCEPT !.failures = @ + 1]

\* execute(), lines 42-44: the handler is called when set and for Errors only
Report(b, log, e) ==
    IF b.onError /\ IsErrorInstance(e)
    THEN [count |-> log.count + 1, last |-> e]
    ELSE log

(***************************************************************************)
(* Part 2.  CacheDefinitionImpl: get / set over the shared store            *)
(***************************************************************************)
\* cache instances (processes), each with its own LocalCache, Deduplicator
\* and CircuitBreaker; the cache keys; the values set() is called with and the
\* values the fetch function yields
Inst == {"A", "B"}
\* serverless version numbers
Versions == 0..MaxVersion
Keys == {"k", "j", "m"}
SetValues == {"v1"}
\* the payloads of the calls where two values are told apart
NewValues == {"v1", "v2"}
FetchValues == {"f1", "f2"}

\* the cache definition a key belongs to and the key part its key function
\* yields: k is entry 1 of "user", j entry 1 and m entry 2 of "post"
NameOf(k) == IF k = "k" THEN "user" ELSE "post"
PartOf(k) == IF k = "m" THEN "2" ELSE "1"
\* buildCacheKey(prefix, name, key): `${prefix}:${name}:${key}`, as the
\* sequence of its colon-separated segments
BuildCacheKey(prefix, name, part) == prefix \o <<name, part>>
BuildKey(c, k) == BuildCacheKey(c.prefix, NameOf(k), PartOf(k))
\* config.tags(...args)
TagsOf(c, k) == IF k \in c.tagged THEN {"t"} ELSE {}

\* PatternMatcher.trackKey(key): key.split(':')[1] names the bucket
\* `${prefix}:pattern:${parts[1]}`; nothing is tracked for fewer than 3 parts
TrackKey(c, idx, k) ==
    LET parts == BuildKey(c, k) IN
    IF Len(parts) < 3 THEN idx
    ELSE idx \cup {<<c.prefix \o <<"pattern", parts[2]>>, k>>}
\* TagManager.addTags(key, tags)
AddTags(c, idx, k) == idx \cup {<<t, k>> : t \in TagsOf(c, k)}
\* TagManager.getKeysByTag(tag), removeTags(key, tags), deleteTag(tag)
GetKeysByTag(idx, t) == {k \in Keys : <<t, k>> \in idx}
RemoveTags(c, idx, k) == idx \ {<<t, k>> : t \in TagsOf(c, k)}
DeleteTag(idx, t) == {p \in idx : p[1] # t}
\* PatternMatcher.removeKey(key)
RemoveKey(c, idx, k) ==
    LET parts == BuildKey(c, k) IN
    IF Len(parts) < 3 THEN idx
    ELSE idx \ {<<c.prefix \o <<"pattern", parts[2]>>, k>>}
\* patternToRegex of `${prefix}:${name}:*`: the full key starts with the
\* segments of the prefix and the name, followed by a colon
MatchesPattern(c, name, k) ==
    LET full == c.prefix \o <<name>>
        key == BuildKey(c, k)
    IN  Len(key) > Len(full) /\ SubSeq(key, 1, Len(full)) = full
\* PatternMatcher.getKeysByPattern(`${name}:*`): the members of the bucket
\* `${prefix}:pattern:${name}` that match the pattern
GetKeysByPattern(c, idx, name) ==
    {k \in Keys : /\ <<c.prefix \o <<"pattern", name>>, k>> \in idx
                  /\ MatchesPattern(c, name, k)}
\* config.invalidates(...args): the keys deleted along with key k
CascadeMutTransitive(c, k) ==
    LET direct == {j \in Keys : <<k, j>> \in c.invalidates} IN
    direct \cup {j \in Keys : \E x \in direct : <<x, j>> \in c.invalidates}
Cascade(c, k) == {j \in Keys : <<k, j>> \in c.invalidates}

\* a stored entry: the payload, whether it is wrapped in {data, expiresAt,
\* staleUntil}, and exp, the time the store drops the key (-1: never)
Absent == [val |-> "absent", meta |-> FALSE, expiresAt |-> 0, staleUntil |-> 0,
           exp |-> -1]
\* a LocalCache slot: the cached value, the time it was set and its ttl (0: none)
NoSlot == [ent |-> Absent, start |-> 0, ttl |-> 0]

\* getTTL(): 0 stands for undefined (no expiry)
GetTTL(c) == c.ttl
\* isSliding()
IsSliding(c) == c.sliding
\* JavaScript truthiness of a payload
Truthy(v) == v \notin {"null", "absent", "zero", "empty", "false"}

\* set(), lines 358-373: the value to store and the store TTL at time t
WrapMutWindowFromWrite(c, v, t) ==
    IF c.swr > 0 /\ GetTTL(c) > 0
    THEN [val |-> v, meta |-> TRUE, expiresAt |-> t + GetTTL(c),
          staleUntil |-> t + c.swr, exp |-> -1]
    ELSE [val |-> v, meta |-> FALSE, expiresAt |-> 0, staleUntil |-> 0, exp |-> -1]
Wrap(c, v, t) ==
    IF c.swr > 0 /\ GetTTL(c) > 0
    THEN [val |-> v, meta |-> TRUE, expiresAt |-> t + GetTTL(c),
          staleUntil |-> t + GetTTL(c) + c.swr, exp |-> -1]
    ELSE [val |-> v, meta |-> FALSE, expiresAt |-> 0, staleUntil |-> 0, exp |-> -1]
StoreTTL(c) ==
    IF c.swr > 0 /\ GetTTL(c) > 0 THEN GetTTL(c) + c.swr ELSE GetTTL(c)

\* unwrapValue(), lines 119-132: whatever has a 'data' and an 'expiresAt'
\* field is taken for a wrapper and its data field handed back: the wrapper
\* set() built, and also a payload "lookalike", the caller's own object
\* {data: "lookalikeData", expiresAt: 0}, stored as it is
UnwrappedData(e) ==
    IF ~e.meta /\ e.val = "lookalike" THEN "lookalikeData" ELSE e.val
\* unwrapValue(): isStale and isPastStale
IsStaleMutAtExpiry(e, t) == e.meta /\ e.expiresAt # 0 /\ t >= e.expiresAt
IsPastStaleMutNever(e, t) == FALSE
IsStale(e, t) == e.meta /\ e.expiresAt # 0 /\ t > e.expiresAt
IsPastStale(e, t) == e.meta /\ e.staleUntil # 0 /\ t > e.staleUntil

\* redis.get(key): a key past its expiry is gone
Live(e, t) == e.val # "absent" /\ (e.exp = -1 \/ t < e.exp)
RedisGet(k) == IF Live(store[k], now) THEN store[k] ELSE Absent
\* redis.setex / redis.set
RedisSetMutDrop(e, ttl, t) == Absent
RedisSet(e, ttl, t) == [e EXCEPT !.exp = IF ttl > 0 THEN t + ttl ELSE -1]

\* redis.get(versionKey): the counter, -1 when there is none or it expired
VersionGet(k) ==
    IF vers[k] # -1 /\ (versExp[k] = -1 \/ now < versExp[k]) THEN vers[k]
    ELSE -1

\* VersionedCache, lines 17, 33 and 56: `${prefix}:version:${key}`, where
\* key is what buildKey() returned
VersionKey(c, k) == c.prefix \o <<"version">> \o BuildKey(c, k)
\* VersionedCache, lines 21 and 44: `${prefix}:${key}:v${version}`
VersionedKey(c, k, n) == c.prefix \o BuildKey(c, k) \o <<"v" \o ToString(n)>>
\* the keys the shared store holds for the version counters and the versioned
\* payloads
PhysicalKeys ==
    {VersionKey(cfg, k) : k \in {x \in Keys : VersionGet(x) # -1}}
    \cup {VersionedKey(cfg, p[1], p[2]) :
            p \in {q \in Keys \X Versions : Live(vstore[q[1]][q[2]], now)}}

\* LocalCache.get: lru-cache drops a slot once now - start > ttl
LocalGet(i, k) ==
    LET s == local[i][k] IN
    IF s.ent.val # "absent" /\ (s.ttl = 0 \/ now - s.start <= s.ttl)
    THEN s.ent ELSE Absent
\* LocalCache.set(key, value, ttl)
LocalSet(loc, i, k, e, ttl) ==
    [loc EXCEPT ![i][k] = [ent |-> [e EXCEPT !.exp = -1], start |-> now,
                           ttl |-> ttl]]
\* LocalCache.delete(key)
LocalDelete(loc, i, k) == [loc EXCEPT ![i][k] = NoSlot]

\* a task: one execution of fetchAndCache() (kind "fetch": started by
\* Deduplicator.run or directly; "bg": background revalidation), of the
\* serverless fetch-through of get() ("slfetch") or of set() ("set")
NewTask(i, k, kind, stage, reg) ==
    [inst |-> i, key |-> k, kind |-> kind, stage |-> stage, val |-> "none",
     ent |-> Absent, reg |-> reg, ver |-> -1, err |-> "none"]
Settled(t) == tasks[t].stage \in {"done", "failed"}
\* invocations of the fetch function so far, and those in flight
FetchTasks == {t \in DOMAIN tasks : tasks[t].kind # "set"}
InFlight(i, k) ==
    {t \in DOMAIN tasks : tasks[t].stage = "fetch" /\ tasks[t].inst = i
                          /\ tasks[t].key = k}

\* a call: its operation and position, the task it awaits, its outcome, and
\* (history) its start time, whether it started after a set() had completed,
\* where its result came from and the entry it was served from, and whether
\* it started after a background refresh of its instance had stored a value,
\* and whether it evicted a past-stale LocalCache copy; for an invalidation:
\* its tag or pattern name, the keys it removed and the instances subscribed
\* when it published; for a bulk call: the list it was called with, the list
\* it returned (getMany) or stored (setMany, warm); for a get and a warm: the
\* times it invoked the fetch function and awaited the result; for a get
\* whose store reply is on its way: the entry the store answered with
IdleCaller == [op |-> "none", pc |-> "idle", inst |-> "A", key |-> "k",
               task |-> 0, ver |-> 0, res |-> "none", out |-> "none",
               fetchFailed |-> FALSE, at |-> 0, afterSet |-> FALSE,
               src |-> "none", served |-> Absent, afterRefresh |-> FALSE,
               evicted |-> FALSE, arg |-> "none", removed |-> {},
               subs |-> {}, args |-> <<>>, many |-> <<>>, fetched |-> 0,
               reply |-> Absent]

\* a behaviour of the breaker harness alone has no cache calls
NoConfig == [mode |-> "server", fetch |-> FALSE, dedupe |-> TRUE, ttl |-> 0,
             swr |-> 0, sliding |-> FALSE, tags |-> FALSE, local |-> FALSE,
             insts |-> {"A"}, ncallers |-> 0, keys |-> {"k"},
             prefix |-> <<"p">>, tagged |-> {},
             pubsub |-> TRUE, invalidates |-> {}]

\* the state after createCache() and define(): an empty store, empty
\* LocalCaches, closed breakers with the 'error' handler set (cache.ts:84)
InitCache(configs) ==
    /\ cfg \in configs
    /\ storeUp = TRUE
    /\ outages = 0
    /\ store = [k \in Keys |-> Absent]
    /\ vers = [k \in Keys |-> -1]
    /\ vstore = [k \in Keys |-> [n \in Versions |-> Absent]]
    /\ patIdx = {}
    /\ tagIdx = {}
    /\ local = [i \in Inst |-> [k \in Keys |-> NoSlot]]
    /\ pending = [i \in Inst |-> [k \in Keys |-> 0]]
    /\ breakers = [i \in Inst |-> SetHandler(NewBreaker)]
    /\ tasks = <<>>
    /\ callers = [c \in 1..cfg.ncallers |-> IdleCaller]
    /\ errEvents = 0
    /\ versExp = [k \in Keys |-> -1]
    /\ bus = [i \in Inst |-> <<>>]
    /\ subscribed = [i \in Inst |-> FALSE]
    /\ invEvents = [i \in Inst |-> {}]
    /\ writes = 0
    /\ setEvents = 0


(***************************************************************************)
(* The breaker harness: concurrent execute(primary, fallback) calls         *)
(***************************************************************************)
IdleCall == [pc |-> "idle", err |-> "none"]
NoEvent == [kind |-> "none", from |-> "closed", res |-> "none", fb |-> "none"]

\* execute(), lines 45 and 29: what execute settles with after fallback()
\* settled with o (the primary's error err is dropped)
ExecuteResult(err, o) == o

InitCB ==
    /\ now = 0
    /\ breaker = NewBreaker
    /\ calls = [c \in 1..ExecCallers |-> IdleCall]
    /\ nexec = 0
    /\ errorLog = [count |-> 0, last |-> "none"]
    /\ lastEv = NoEvent
    /\ consecFail = 0
    /\ hoSucc = 0
    /\ hoStarts = 0
    /\ lcache = [max |-> DefaultMaxSize, slots |-> <<>>, ins |-> <<>>,
                 ops |-> 0, last |-> [op |-> "none", key |-> "none"]]
    /\ InitCache({NoConfig})

\* cache.ts line 84 / any owner of a bare breaker: setErrorHandler
SetErrorHandler ==
    /\ ~breaker.onError
    /\ breaker' = SetHandler(breaker)
    /\ UNCHANGED <<now, calls, nexec, errorLog, lastEv, consecFail, hoSucc,
                   hoStarts>>
    /\ UNCHANGED cacheVars
    /\ UNCHANGED lcache

\* the callers are interchangeable: the next call is made by the first idle one
FirstIdle(c) ==
    /\ calls[c].pc = "idle"
    /\ \A d \in 1..ExecCallers : d < c => calls[d].pc # "idle"

\* execute() up to its first await: fallback() when open and cooling down,
\* primary (fn()) otherwise
ExecuteStart(c) ==
    /\ FirstIdle(c)
    /\ nexec < MaxExec
    /\ nexec' = nexec + 1
    /\ IF ShortCircuit(breaker, now)
       THEN /\ calls' = [calls EXCEPT ![c] = [pc |-> "fallback", err |-> "none"]]
            /\ breaker' = breaker
            /\ lastEv' = [kind |-> "short", from |-> breaker.state,
                          res |-> "none", fb |-> "none"]
            /\ hoSucc' = hoSucc
            /\ hoStarts' = hoStarts
       ELSE /\ calls' = [calls EXCEPT ![c] = [pc |-> "primary", err |-> "none"]]
            /\ breaker' = Gate(breaker, now)
            /\ lastEv' = [kind |-> "enter", from |-> breaker.state,
                          res |-> "none", fb |-> "none"]
            /\ hoSucc' = IF breaker.state = "open" THEN 0 ELSE hoSucc
            /\ hoStarts' = IF breaker.state = "open" THEN 1
                           ELSE IF breaker.state = "half-open"
                           THEN hoStarts + 1 ELSE hoStarts
    /\ UNCHANGED <<now, errorLog, consecFail>>
    /\ UNCHANGED cacheVars
    /\ UNCHANGED lcache

\* fn() resolves: onSuccess(), return result
PrimarySucceed(c) ==
    /\ calls[c].pc = "primary"
    /\ breaker' = OnSuccess(breaker)
    /\ calls' = [calls EXCEPT ![c] = IdleCall]
    /\ lastEv' = [kind |-> "success", from |-> breaker.state,
                  res |-> "primaryValue", fb |-> "none"]
    /\ consecFail' = 0
    /\ hoSucc' = IF breaker.state = "half-open" THEN hoSucc + 1 ELSE hoSucc
    /\ UNCHANGED hoStarts
    /\ UNCHANGED <<now, nexec, errorLog>>
    /\ UNCHANGED cacheVars
    /\ UNCHANGED lcache

\* fn() rejects with e: onFailure(), onError(e), then fallback() is started
PrimaryFail(c, e) ==
    /\ calls[c].pc = "primary"
    /\ breaker' = OnFailure(breaker, now)
    /\ errorLog' = Report(breaker, errorLog, e)
    /\ calls' = [calls EXCEPT ![c] = [pc |-> "fallback", err |-> e]]
    /\ lastEv' = [kind |-> "failure", from |-> breaker.state, res |-> "none",
                  fb |-> "none"]
    /\ consecFail' = consecFail + 1
    /\ hoSucc' = IF breaker.state = "half-open" THEN 0 ELSE hoSucc
    /\ UNCHANGED hoStarts
    /\ UNCHANGED <<now, nexec>>
    /\ UNCHANGED cacheVars
    /\ UNCHANGED lcache

\* fallback() settles with o: execute returns (or rejects with) just that
FallbackSettle(c, o) ==
    /\ calls[c].pc = "fallback"
    /\ calls' = [calls EXCEPT ![c] = IdleCall]
    /\ lastEv' = [kind |-> IF calls[c].err = "none" THEN "settleShort"
                           ELSE "settleFailed",
                  from |-> breaker.state,
                  res |-> ExecuteResult(calls[c].err, o), fb |-> o]
    /\ UNCHANGED <<now, breaker, nexec, errorLog, consecFail, hoSucc,
                   hoStarts>>
    /\ UNCHANGED cacheVars
    /\ UNCHANGED lcache

\* the clock advances
TickCB ==
    /\ now < MaxTimeCB
    /\ now' = now + 1
    /\ UNCHANGED <<breaker, calls, nexec, errorLog, lastEv, consecFail, hoSucc,
                   hoStarts>>
    /\ UNCHANGED cacheVars
    /\ UNCHANGED lcache

NextCB ==
    \/ SetErrorHandler
    \/ \E c \in 1..ExecCallers : ExecuteStart(c)
    \/ \E c \in 1..ExecCallers : PrimarySucceed(c)
    \/ \E c \in 1..ExecCallers, e \in PrimaryErrors : PrimaryFail(c, e)
    \/ \E c \in 1..ExecCallers, o \in FallbackOutcomes : FallbackSettle(c, o)
    \/ TickCB

SpecCB == InitCB /\ [][NextCB]_vars

(***************************************************************************)
(* Claims about CircuitBreaker, checked under SpecCB.                      *)
(***************************************************************************)
\* the step in which call c's primary rejects / resolves / is started
PrimaryFailStep(c) == calls[c].pc = "primary" /\ calls'[c].pc = "fallback"
PrimarySucceedStep(c) == calls[c].pc = "primary" /\ calls'[c].pc = "idle"
ExecuteStartStep(c) == calls[c].pc = "idle" /\ calls'[c].pc # "idle"
ExecCalls == 1..ExecCallers

\* C5: from closed, the primary failure that makes Threshold consecutive
\* failures (no primary success completed in between) leaves the breaker open;
\* a primary success in closed resets the failure count; closed goes to open
\* only on a failure that completes at least Threshold consecutive ones, and
\* while closed the failure count is the number of consecutive failures.
C5_OpensAtThreshold ==
    /\ [](breaker.state = "closed" =>
            breaker.failures = consecFail /\ consecFail < Threshold)
    /\ [][\A c \in ExecCalls :
            /\ (PrimaryFailStep(c) /\ breaker.state = "closed"
                  /\ consecFail' >= Threshold) => breaker'.state = "open"
            /\ (PrimarySucceedStep(c) /\ breaker.state = "closed")
                  => (breaker'.failures = 0 /\ breaker'.state = "closed")
            /\ (breaker.state = "closed" /\ breaker'.state = "open")
                  => (PrimaryFailStep(c) => consecFail' >= Threshold)
            /\ (breaker.state = "closed" /\ breaker'.state # "closed")
                  => \E d \in ExecCalls : PrimaryFailStep(d)]_vars
\* reached: Threshold consecutive failures from closed have just opened it
C5_Witness ==
    /\ breaker.state = "open"
    /\ lastEv.kind = "failure" /\ lastEv.from = "closed"
    /\ consecFail = Threshold

\* C6: an execute() started while the breaker is open and the cool-down has
\* not elapsed does not start primary, leaves the breaker as it is and goes to
\* fallback; it settles with what fallback settles with.
C6_OpenUsesFallback ==
    /\ [][\A c \in ExecCalls :
            (ExecuteStartStep(c) /\ breaker.state = "open"
               /\ now < breaker.nextAttempt)
            => (calls'[c].pc = "fallback" /\ breaker' = breaker)]_vars
    /\ [](lastEv.kind = "settleShort" => lastEv.res = lastEv.fb)
\* reached: a call short-circuited by the open breaker has returned fallback's
\* value while the cool-down is still running
C6_Witness ==
    /\ lastEv.kind = "settleShort" /\ lastEv.res = "fbValue"
    /\ breaker.state = "open" /\ now < breaker.nextAttempt

\* C7 (as claimed): every primary failure completing while half-open moves the
\* breaker to open with nextAttempt = now + Timeout.
C7_HalfOpenFailureReopens ==
    [][\A c \in ExecCalls :
         (PrimaryFailStep(c) /\ breaker.state = "half-open")
         => (breaker'.state = "open" /\ breaker'.nextAttempt = now + Timeout)
      ]_vars

\* C8 (as claimed): after the cool-down the next execute starts primary with
\* the breaker half-open; half-open becomes closed (failures 0) exactly on the
\* success that completes HalfOpenRequests consecutive successes in half-open.
C8_HalfOpenCloses ==
    [][\A c \in ExecCalls :
         /\ (ExecuteStartStep(c) /\ breaker.state = "open"
               /\ now >= breaker.nextAttempt)
            => (calls'[c].pc = "primary" /\ breaker'.state = "half-open")
         /\ (PrimarySucceedStep(c) /\ breaker.state = "half-open")
            => /\ (breaker'.state = "closed") <=> (hoSucc' >= HalfOpenRequests)
               /\ breaker'.state = "closed" => breaker'.failures = 0
               /\ breaker'.state \in {"closed", "half-open"}
      ]_vars

\* C9 (as claimed, with an error handler set): a primary failure in closed or
\* half-open increments the failure count, invokes the handler once with the
\* error, and the call settles with what fallback settles with.
C9_FailureReportedAndFallback ==
    /\ [][\A c \in ExecCalls :
            (PrimaryFailStep(c) /\ breaker.state \in {"closed", "half-open"}
               /\ breaker.onError)
            => /\ breaker'.failures = breaker.failures + 1
               /\ errorLog'.count = errorLog.count + 1
               /\ errorLog'.last = calls'[c].err]_vars
    /\ [](lastEv.kind = "settleFailed" => lastEv.res = lastEv.fb)

(***************************************************************************)
(* get(), set() and the executions they start                              *)
(***************************************************************************)
Resolve(cr, v) == [cr EXCEPT !.pc = "done", !.out = "resolved", !.res = v]
\* the call found entry e in src ("local": LocalCache, "store")
Hit(cr, e, src) == [cr EXCEPT !.src = src, !.served = [e EXCEPT !.exp = -1]]
Reject(cr, e) == [cr EXCEPT !.pc = "done", !.out = "rejected", !.res = e]

\* the callers are interchangeable: the next call is made by the first idle one
FirstIdleCaller(c) ==
    /\ callers[c].pc = "idle"
    /\ \A d \in DOMAIN callers : d < c => callers[d].pc # "idle"

\* fetchAndCache() is called (config.fetch is invoked at once) for caller
\* record cr of call c, which then awaits it at pcNext; reg: through
\* Deduplicator.run, which registers the promise in pending.  The call's
\* record counts the invocation (history).
StartFetch(c, cr, kind, reg, pcNext) ==
    LET id == Len(tasks) + 1 IN
    /\ Len(tasks) < MaxTasks
    /\ tasks' = Append(tasks, NewTask(cr.inst, cr.key, kind, "fetch", reg))
    /\ pending' = IF reg THEN [pending EXCEPT ![cr.inst][cr.key] = id]
                  ELSE pending
    /\ callers' = [callers EXCEPT
          ![c] = [cr EXCEPT !.pc = pcNext, !.task = id, !.fetched = @ + 1]]

\* Deduplicator.run(key, fn): join the pending promise, or start fn and
\* register it
DedupRunMutNoJoin(c, cr) == StartFetch(c, cr, "fetch", TRUE, "p_wait")
DedupRun(c, cr) ==
    IF pending[cr.inst][cr.key] # 0
    THEN /\ callers' = [callers EXCEPT
                ![c] = [cr EXCEPT !.pc = "p_wait",
                                  !.task = pending[cr.inst][cr.key]]]
         /\ UNCHANGED <<tasks, pending>>
    ELSE StartFetch(c, cr, "fetch", TRUE, "p_wait")

\* get(), lines 265-274 and 328-338: a miss inside primary
MissInPrimary(c, cr) ==
    IF cfg.fetch
    THEN /\ IF cfg.dedupe THEN DedupRun(c, cr)
            ELSE StartFetch(c, cr, "fetch", FALSE, "p_wait")
         /\ UNCHANGED breakers
    ELSE /\ callers' = [callers EXCEPT ![c] = Resolve(cr, "null")]
         /\ breakers' = [breakers EXCEPT ![cr.inst] = OnSuccess(@)]
         /\ UNCHANGED <<tasks, pending>>

\* get(), lines 239-244: fallback()
Fallback(c, cr) ==
    IF cfg.fetch
    THEN StartFetch(c, cr, "fetch", FALSE, "fb_wait")
    ELSE /\ callers' = [callers EXCEPT ![c] = Resolve(cr, "null")]
         /\ UNCHANGED <<tasks, pending>>

\* CircuitBreaker.execute, lines 40-45: primary rejected with e
BreakerCatch(c, cr, e) ==
    /\ breakers' = [breakers EXCEPT ![cr.inst] = OnFailure(@, now)]
    /\ errEvents' = IF breakers[cr.inst].onError /\ IsErrorInstance(e)
                    THEN errEvents + 1 ELSE errEvents
    /\ Fallback(c, cr)

\* background revalidation, lines 205-211 and 283-289: fetchAndCache() is
\* started and nobody awaits it
StartBackgroundMutNone(i, k) == tasks' = tasks
StartBackground(i, k) ==
    /\ Len(tasks) < MaxTasks
    /\ tasks' = Append(tasks, NewTask(i, k, "bg", "fetch", FALSE))

\* get() up to its first await
GetStart(c, i, k) ==
    /\ FirstIdleCaller(c)
    /\ i \in cfg.insts
    /\ LET cr == [callers[c] EXCEPT
                    !.op = "get", !.inst = i, !.key = k, !.at = now,
                    !.afterSet = \E d \in DOMAIN callers :
                                    callers[d].op = "set" /\ callers[d].pc = "done",
                    !.afterRefresh = \E t \in DOMAIN tasks :
                                    /\ tasks[t].kind = "bg" /\ tasks[t].inst = i
                                    /\ tasks[t].stage = "done"
                                    /\ tasks[t].val # "null"]
           hit == IF cfg.local THEN LocalGet(i, k) ELSE Absent
           isHit == cfg.local /\ hit.val # "absent"
           throughBreaker(r) ==
               IF ShortCircuit(breakers[i], now)
               THEN /\ Fallback(c, r)
                    /\ UNCHANGED breakers
               ELSE /\ breakers' = [breakers EXCEPT ![i] = Gate(@, now)]
                    /\ callers' = [callers EXCEPT ![c] = [r EXCEPT !.pc = "p_read"]]
                    /\ UNCHANGED <<tasks, pending>>
       IN
       IF cfg.mode = "serverless"
       THEN /\ callers' = [callers EXCEPT ![c] = [cr EXCEPT !.pc = "sl_ver"]]
            /\ UNCHANGED <<tasks, pending, breakers, local>>
       ELSE IF isHit /\ IsPastStale(hit, now)
       THEN /\ local' = LocalDelete(local, i, k)
            /\ throughBreaker([cr EXCEPT !.evicted = TRUE])
       ELSE IF isHit /\ IsStale(hit, now) /\ cfg.fetch
       THEN /\ StartBackground(i, k)
            /\ callers' = [callers EXCEPT
                   ![c] = Resolve(Hit(cr, hit, "local"), UnwrappedData(hit))]
            /\ UNCHANGED <<pending, breakers, local>>
       ELSE IF isHit
       THEN /\ callers' = [callers EXCEPT
                   ![c] = IF IsSliding(cfg) /\ GetTTL(cfg) > 0
                          THEN [Hit(cr, hit, "local") EXCEPT
                                  !.pc = "l_expire", !.res = UnwrappedData(hit)]
                          ELSE Resolve(Hit(cr, hit, "local"), UnwrappedData(hit))]
            /\ UNCHANGED <<tasks, pending, breakers, local>>
       ELSE /\ throughBreaker(cr)
            /\ UNCHANGED local
    /\ UNCHANGED <<now, cfg, storeUp, outages, store, vers, vstore, patIdx,
                   tagIdx, errEvents>>
    /\ UNCHANGED harnessVars
    /\ UNCHANGED <<versExp, busVars, countVars>>

\* primary, lines 249-338: redis.get(key) settled with entry e and get() runs
\* to its next await
StoreReadWith(c, e) ==
    /\ LET cr == callers[c]
           i == cr.inst
           k == cr.key
       IN
       IF ~storeUp
       THEN /\ BreakerCatch(c, cr, "storeError")
            /\ UNCHANGED local
       ELSE IF e.val = "absent" \/ IsPastStale(e, now)
       THEN /\ MissInPrimary(c, cr)
            /\ UNCHANGED <<local, errEvents>>
       ELSE IF IsStale(e, now) /\ cfg.fetch
       THEN /\ StartBackground(i, k)
            /\ callers' = [callers EXCEPT
                   ![c] = Resolve(Hit(cr, e, "store"), UnwrappedData(e))]
            /\ breakers' = [breakers EXCEPT ![i] = OnSuccess(@)]
            /\ UNCHANGED <<pending, local, errEvents>>
       ELSE /\ local' = IF cfg.local /\ Truthy(UnwrappedData(e))
                        THEN LocalSet(local, i, k, e, GetTTL(cfg))
                        ELSE local
            /\ IF IsSliding(cfg) /\ GetTTL(cfg) > 0
               THEN /\ callers' = [callers EXCEPT
                          ![c] = [Hit(cr, e, "store") EXCEPT
                                    !.pc = "p_expire", !.res = UnwrappedData(e)]]
                    /\ UNCHANGED breakers
               ELSE /\ callers' = [callers EXCEPT
                          ![c] = Resolve(Hit(cr, e, "store"), UnwrappedData(e))]
                    /\ breakers' = [breakers EXCEPT ![i] = OnSuccess(@)]
            /\ UNCHANGED <<tasks, pending, errEvents>>
    /\ UNCHANGED <<now, cfg, storeUp, outages, store, vers, vstore, patIdx,
                   tagIdx>>
    /\ UNCHANGED harnessVars
    /\ UNCHANGED <<versExp, busVars, countVars>>

\* the store executes the redis.get of call c and the reply reaches the
\* instance in the same step
StoreReadReply(c) ==
    /\ callers[c].pc = "p_read"
    /\ StoreReadWith(c, RedisGet(callers[c].key))

\* the same in two steps: the store executes the redis.get of call c, and the
\* reply reaches the instance later, after whatever the instance's other
\* connections deliver in between
StoreAnswers(c) ==
    /\ callers[c].pc = "p_read"
    /\ storeUp
    /\ callers' = [callers EXCEPT
          ![c] = [@ EXCEPT !.pc = "p_reply",
                           !.reply = RedisGet(callers[c].key)]]
    /\ UNCHANGED <<now, cfg, storeUp, outages, store, vers, vstore, patIdx,
                   tagIdx, local, pending, breakers, tasks, errEvents>>
    /\ UNCHANGED harnessVars
    /\ UNCHANGED <<versExp, busVars, countVars>>
ReplyArrives(c) ==
    /\ callers[c].pc = "p_reply"
    /\ StoreReadWith(c, callers[c].reply)

\* resetTTL(): redis.expire(key, ttl) settles; inside primary (p_expire) a
\* failure goes to the breaker, on the LocalCache path (l_expire) to the caller
ExpireReply(c) ==
    /\ callers[c].pc \in {"p_expire", "l_expire"}
    /\ LET cr == callers[c]
           i == cr.inst
           k == cr.key
       IN
       IF storeUp
       THEN /\ store' = IF Live(store[k], now)
                        THEN [store EXCEPT ![k].exp = now + GetTTL(cfg)]
                        ELSE store
            /\ callers' = [callers EXCEPT ![c] = Resolve(cr, cr.res)]
            /\ breakers' = IF cr.pc = "p_expire"
                           THEN [breakers EXCEPT ![i] = OnSuccess(@)]
                           ELSE breakers
            /\ UNCHANGED <<tasks, pending, errEvents>>
       ELSE IF cr.pc = "p_expire"
       THEN /\ BreakerCatch(c, [cr EXCEPT !.res = "none", !.src = "none",
                                          !.served = Absent],
                            "storeError")
            /\ UNCHANGED store
       ELSE /\ callers' = [callers EXCEPT ![c] = Reject(cr, "storeError")]
            /\ UNCHANGED <<store, tasks, pending, breakers, errEvents>>
    /\ UNCHANGED <<now, cfg, storeUp, outages, vers, vstore, patIdx, tagIdx,
                   local>>
    /\ UNCHANGED harnessVars
    /\ UNCHANGED <<versExp, busVars, countVars>>

\* the promise a call awaits has settled: primary (p_wait) returns the data
\* or throws into the breaker; fallback, set() and the serverless get settle
\* the call with the outcome
Resume(c) ==
    /\ callers[c].pc \in {"p_wait", "fb_wait", "set_wait", "sl_wait"}
    /\ Settled(callers[c].task)
    /\ LET t == tasks[callers[c].task]
           cr == [callers[c] EXCEPT
                    !.fetchFailed = @ \/ t.err = "fetchError"]
           i == cr.inst
       IN
       IF t.stage = "done"
       THEN /\ callers' = [callers EXCEPT
                   ![c] = Resolve([cr EXCEPT
                                    !.src = IF cr.op = "get" THEN "fetch"
                                            ELSE @],
                                  t.val)]
            /\ breakers' = IF cr.pc = "p_wait"
                           THEN [breakers EXCEPT ![i] = OnSuccess(@)]
                           ELSE breakers
            /\ UNCHANGED <<tasks, pending, errEvents>>
       ELSE IF cr.pc = "p_wait"
       THEN BreakerCatch(c, cr, t.err)
       ELSE /\ callers' = [callers EXCEPT ![c] = Reject(cr, t.err)]
            /\ UNCHANGED <<tasks, pending, breakers, errEvents>>
    /\ UNCHANGED <<now, cfg, storeUp, outages, store, vers, vstore, patIdx,
                   tagIdx, local>>
    /\ UNCHANGED harnessVars
    /\ UNCHANGED <<versExp, busVars, countVars>>

\* Deduplicator.run, lines 17-20: finally() removes the registration
ClearPending(t) ==
    IF tasks[t].reg
    THEN [pending EXCEPT ![tasks[t].inst][tasks[t].key] = 0]
    ELSE pending

\* a store call of task t rejected
TaskFailsMutKeepPending(t, e) ==
    /\ tasks' = [tasks EXCEPT ![t].stage = "failed", ![t].err = e]
    /\ pending' = pending
TaskFails(t, e) ==
    /\ tasks' = [tasks EXCEPT ![t].stage = "failed", ![t].err = e]
    /\ pending' = ClearPending(t)

\* config.fetch settles with o: a value (set() is entered: the entry is built
\* with Date.now() and the store write is issued), null (nothing to cache) or
\* an error
FetchSettle(t, o) ==
    /\ t \in DOMAIN tasks
    /\ tasks[t].stage = "fetch"
    /\ IF o = "fetchError"
       THEN TaskFails(t, o)
       ELSE IF o = "null"
       THEN /\ tasks' = [tasks EXCEPT ![t].stage = "done", ![t].val = o]
            /\ pending' = ClearPending(t)
       ELSE /\ tasks' = [tasks EXCEPT
                  ![t].val = o,
                  ![t].ent = IF tasks[t].kind = "slfetch"
                             THEN [Absent EXCEPT !.val = o]
                             ELSE Wrap(cfg, o, now),
                  ![t].stage = IF cfg.mode = "serverless" THEN "sl_getver"
                               ELSE "setex"]
            /\ UNCHANGED pending
    /\ UNCHANGED <<now, cfg, storeUp, outages, store, vers, vstore, patIdx,
                   tagIdx, local, breakers, callers, errEvents>>
    /\ UNCHANGED harnessVars
    /\ UNCHANGED <<versExp, busVars, countVars>>

\* the store TTL of task t: set() uses ttl + staleWhileRevalidate, the
\* serverless fetch-through of get() (line 169) the plain ttl
TaskTTL(t) == IF tasks[t].kind = "slfetch" THEN GetTTL(cfg) ELSE StoreTTL(cfg)

\* set(), lines 382-391: redis.setex / redis.set settles, then LocalCache.set
TaskSetex(t) ==
    /\ t \in DOMAIN tasks
    /\ tasks[t].stage = "setex"
    /\ LET i == tasks[t].inst
           k == tasks[t].key
       IN
       IF storeUp
       THEN /\ store' = [store EXCEPT
                  ![k] = RedisSet(tasks[t].ent, TaskTTL(t), now)]
            /\ local' = IF cfg.local
                        THEN LocalSet(local, i, k, tasks[t].ent, TaskTTL(t))
                        ELSE local
            /\ tasks' = [tasks EXCEPT ![t].stage = "track"]
            /\ writes' = writes + 1
            /\ UNCHANGED pending
       ELSE /\ TaskFails(t, "storeError")
            /\ UNCHANGED <<store, local, writes>>
    /\ UNCHANGED <<now, cfg, storeUp, outages, vers, vstore, patIdx, tagIdx,
                   breakers, callers, errEvents>>
    /\ UNCHANGED harnessVars
    /\ UNCHANGED <<versExp, busVars, setEvents>>

\* set(), lines 394-408: patternMatcher.trackKey, then tagManager.addTags when
\* tags are configured, then the 'set' event and set() returns
TaskIndex(t) ==
    /\ t \in DOMAIN tasks
    /\ tasks[t].stage \in {"track", "tags"}
    /\ LET k == tasks[t].key IN
       IF ~storeUp
       THEN /\ TaskFails(t, "storeError")
            /\ UNCHANGED <<patIdx, tagIdx, setEvents>>
       ELSE IF tasks[t].stage = "track"
       THEN /\ patIdx' = TrackKey(cfg, patIdx, k)
            /\ tasks' = [tasks EXCEPT
                  ![t].stage = IF cfg.tags THEN "tags" ELSE "done"]
            /\ pending' = IF cfg.tags THEN pending ELSE ClearPending(t)
            /\ setEvents' = IF cfg.tags THEN setEvents ELSE setEvents + 1
            /\ UNCHANGED tagIdx
       ELSE /\ tagIdx' = AddTags(cfg, tagIdx, k)
            /\ tasks' = [tasks EXCEPT ![t].stage = "done"]
            /\ pending' = ClearPending(t)
            /\ setEvents' = setEvents + 1
            /\ UNCHANGED patIdx
    /\ UNCHANGED <<now, cfg, storeUp, outages, store, vers, vstore, local,
                   breakers, callers, errEvents>>
    /\ UNCHANGED harnessVars
    /\ UNCHANGED <<versExp, busVars, writes>>

\* the shared store becomes unreachable / reachable again
StoreDown ==
    /\ storeUp
    /\ outages < MaxOutages
    /\ storeUp' = FALSE
    /\ outages' = outages + 1
    /\ UNCHANGED <<now, cfg, store, vers, vstore, patIdx, tagIdx, local,
                   pending, breakers, tasks, callers, errEvents>>
    /\ UNCHANGED harnessVars
    /\ UNCHANGED <<versExp, busVars, countVars>>
StoreRecover ==
    /\ ~storeUp
    /\ storeUp' = TRUE
    /\ UNCHANGED <<now, cfg, outages, store, vers, vstore, patIdx, tagIdx,
                   local, pending, breakers, tasks, callers, errEvents>>
    /\ UNCHANGED harnessVars
    /\ UNCHANGED <<versExp, busVars, countVars>>

\* the clock advances
Tick ==
    /\ now < MaxTime
    /\ now' = now + 1
    /\ UNCHANGED cacheVars
    /\ UNCHANGED harnessVars

\* set() up to its first await: the entry is built with Date.now() and the
\* store write is issued
SetStart(c, i, k, v) ==
    /\ FirstIdleCaller(c)
    /\ i \in cfg.insts
    /\ Len(tasks) < MaxTasks
    /\ tasks' = Append(tasks,
          [NewTask(i, k, "set",
                   IF cfg.mode = "serverless" THEN "sl_getver" ELSE "setex",
                   FALSE)
             EXCEPT !.val = v, !.ent = Wrap(cfg, v, now)])
    /\ callers' = [callers EXCEPT
          ![c] = [@ EXCEPT !.op = "set", !.inst = i, !.key = k, !.at = now,
                           !.pc = "set_wait", !.task = Len(tasks) + 1]]
    /\ UNCHANGED <<now, cfg, storeUp, outages, store, vers, vstore, patIdx,
                   tagIdx, local, pending, breakers, errEvents>>
    /\ UNCHANGED harnessVars
    /\ UNCHANGED <<versExp, busVars, countVars>>

\* 24 hours pass
TickDay ==
    /\ now < MaxDays * VersionTTL
    /\ now' = now + VersionTTL
    /\ UNCHANGED cacheVars
    /\ UNCHANGED harnessVars

(***************************************************************************)
(* invalidate(), invalidateTag(), invalidatePattern() and the pub/sub       *)
(* channel.  Each invalidation is awaited by its caller before the next     *)
(* call is made, so its store calls are modelled as one step.               *)
(***************************************************************************)
\* PubSubHandler.publish*: the store hands message m to every subscribed
\* connection, the publisher's own included
Publish(m) ==
    [j \in Inst |-> IF cfg.pubsub /\ cfg.mode = "server" /\ subscribed[j]
                    THEN Append(bus[j], m) ELSE bus[j]]
Subscribers ==
    {j \in Inst : cfg.pubsub /\ cfg.mode = "server" /\ subscribed[j]}
\* redis.incr(versionKey): a missing or expired counter counts from 0
IncrVersion(k) == (IF VersionGet(k) = -1 THEN 0 ELSE VersionGet(k)) + 1
\* VersionedCache.invalidateMany(keys) / invalidate(key): incr, then expire
VersionsAfter(ks) == [x \in Keys |-> IF x \in ks THEN IncrVersion(x) ELSE vers[x]]
VersExpAfter(ks) ==
    [x \in Keys |-> IF x \in ks THEN now + VersionTTL ELSE versExp[x]]
\* redis.del(...keys) and LocalCache.delete of each key on instance i
StoreAfterDel(ks) == [x \in Keys |-> IF x \in ks THEN Absent ELSE store[x]]
LocalAfterDel(i, ks) ==
    IF cfg.local /\ cfg.mode = "server"
    THEN [local EXCEPT ![i] = [x \in Keys |-> IF x \in ks THEN NoSlot ELSE @[x]]]
    ELSE local
\* the call record of an invalidation that has returned
Invalidated(c, i, op, k, arg, ks) ==
    [callers[c] EXCEPT !.op = op, !.inst = i, !.key = k, !.arg = arg,
                       !.at = now, !.pc = "done", !.out = "resolved",
                       !.removed = ks, !.subs = Subscribers]

\* CacheDefinitionImpl.invalidate(...args)
Invalidate(c, i, k) ==
    /\ FirstIdleCaller(c)
    /\ i \in cfg.insts
    /\ storeUp
    /\ IF cfg.mode = "serverless"
       THEN /\ IncrVersion(k) <= MaxVersion
            /\ vers' = VersionsAfter({k})
            /\ versExp' = VersExpAfter({k})
            /\ callers' = [callers EXCEPT
                   ![c] = Invalidated(c, i, "invalidate", k, "none", {})]
            /\ UNCHANGED <<store, local, bus, patIdx, tagIdx>>
       ELSE /\ store' = StoreAfterDel({k} \cup Cascade(cfg, k))
            /\ local' = LocalAfterDel(i, {k} \cup Cascade(cfg, k))
            /\ bus' = Publish([kind |-> "key", keys |-> {k}, by |-> c])
            /\ patIdx' = RemoveKey(cfg, patIdx, k)
            /\ tagIdx' = IF cfg.tags THEN RemoveTags(cfg, tagIdx, k) ELSE tagIdx
            /\ callers' = [callers EXCEPT
                   ![c] = Invalidated(c, i, "invalidate", k, "none",
                                      {k} \cup Cascade(cfg, k))]
            /\ UNCHANGED <<vers, versExp>>
    /\ invEvents' = [invEvents EXCEPT
          ![i] = @ \cup {[kind |-> "key", keys |-> {k}, by |-> c]}]
    /\ UNCHANGED <<now, cfg, storeUp, outages, vstore, pending, breakers,
                   tasks, errEvents, subscribed, countVars>>
    /\ UNCHANGED harnessVars

\* the part invalidateTag() and invalidatePattern() share once the keys are
\* resolved: nothing for no keys; else the keys are deleted (server) or their
\* versions incremented (serverless), evicted from LocalCache, and published
InvalidateKeys(c, i, op, arg, kind, ks) ==
    /\ IF ks = {}
       THEN /\ callers' = [callers EXCEPT
                   ![c] = Invalidated(c, i, op, "k", arg, {})]
            /\ UNCHANGED <<store, local, bus, vers, versExp, invEvents>>
       ELSE /\ IF cfg.mode = "serverless"
               THEN /\ \A x \in ks : IncrVersion(x) <= MaxVersion
                    /\ vers' = VersionsAfter(ks)
                    /\ versExp' = VersExpAfter(ks)
                    /\ UNCHANGED store
               ELSE /\ store' = StoreAfterDel(ks)
                    /\ UNCHANGED <<vers, versExp>>
            /\ local' = LocalAfterDel(i, ks)
            /\ bus' = Publish([kind |-> kind, keys |-> ks, by |-> c])
            /\ callers' = [callers EXCEPT
                   ![c] = Invalidated(c, i, op, "k", arg,
                                      IF cfg.mode = "serverless" THEN {} ELSE ks)]
            /\ invEvents' = [invEvents EXCEPT
                  ![i] = @ \cup {[kind |-> kind, keys |-> ks, by |-> c]}]
    /\ UNCHANGED <<now, cfg, storeUp, outages, vstore, pending, breakers,
                   tasks, errEvents, subscribed, countVars>>
    /\ UNCHANGED harnessVars

\* CacheImpl.invalidateTag(tag)
InvalidateTag(c, i, t) ==
    /\ FirstIdleCaller(c)
    /\ i \in cfg.insts
    /\ storeUp
    /\ LET ks == GetKeysByTag(tagIdx, t) IN
       /\ InvalidateKeys(c, i, "invalidateTag", t, "tag", ks)
       /\ tagIdx' = IF ks = {} THEN tagIdx ELSE DeleteTag(tagIdx, t)
    /\ UNCHANGED patIdx

\* CacheImpl.invalidateTag(tag) in two steps, for calls that run concurrently
\* with it: line 175, getKeysByTag settles with the tag's keys; then lines
\* 177-203, the rest, which ends with deleteTag
InvalidateTagRead(c, i, t) ==
    /\ FirstIdleCaller(c)
    /\ i \in cfg.insts
    /\ storeUp
    /\ callers' = [callers EXCEPT
          ![c] = [@ EXCEPT !.op = "invalidateTag", !.inst = i, !.arg = t,
                           !.at = now, !.pc = "it_keys",
                           !.removed = GetKeysByTag(tagIdx, t)]]
    /\ UNCHANGED <<now, cfg, storeUp, outages, store, vers, vstore, patIdx,
                   tagIdx, local, pending, breakers, tasks, errEvents>>
    /\ UNCHANGED harnessVars
    /\ UNCHANGED <<versExp, busVars, countVars>>
InvalidateTagFinish(c) ==
    /\ callers[c].pc = "it_keys"
    /\ storeUp
    /\ LET ks == callers[c].removed IN
       /\ InvalidateKeys(c, callers[c].inst, "invalidateTag", callers[c].arg,
                         "tag", ks)
       /\ tagIdx' = IF ks = {} THEN tagIdx
                    ELSE DeleteTag(tagIdx, callers[c].arg)
    /\ UNCHANGED patIdx

\* CacheImpl.invalidatePattern(`${name}:*`)
InvalidatePattern(c, i, name) ==
    /\ FirstIdleCaller(c)
    /\ i \in cfg.insts
    /\ storeUp
    /\ InvalidateKeys(c, i, "invalidatePattern", name, "pattern",
                      GetKeysByPattern(cfg, patIdx, name))
    /\ UNCHANGED <<patIdx, tagIdx>>

\* the text of a key as its tokens: its segments with a ":" between them.  A
\* pattern is a sequence of tokens as well, "*" being the wildcard.
RECURSIVE Join(_)
Join(segs) ==
    IF Len(segs) <= 1 THEN segs
    ELSE <<Head(segs), ":">> \o Join(Tail(segs))
\* PatternMatcher.patternToRegex(pattern).test(txt): a literal matches
\* itself, "*" (`.*`) any text
RECURSIVE Glob(_, _)
Glob(pat, txt) ==
    IF pat = <<>> THEN txt = <<>>
    ELSE IF Head(pat) = "*"
    THEN Glob(Tail(pat), txt) \/ (txt # <<>> /\ Glob(pat, Tail(txt)))
    ELSE txt # <<>> /\ Head(txt) = Head(pat) /\ Glob(Tail(pat), Tail(txt))
\* getKeysByPattern, line 105: pattern.replace(/:\*.*$/, ''), the pattern up
\* to its first ":*"
PatternBase(pat) ==
    LET cut == {n \in 1..(Len(pat) - 1) : pat[n] = ":" /\ pat[n + 1] = "*"} IN
    IF cut = {} THEN pat
    ELSE SubSeq(pat, 1, (CHOOSE n \in cut : \A m \in cut : n <= m) - 1)
\* PatternMatcher.getKeysByPattern(pattern): the members of the bucket
\* `${prefix}:pattern:${base}`, filtered by the regex of
\* `${prefix}:${pattern}` when the pattern has a wildcard
GetKeysByGlob(c, idx, pat) ==
    LET patternKey == Join(c.prefix \o <<"pattern">>) \o <<":">>
                         \o PatternBase(pat)
        members == {k \in Keys : \E q \in idx :
                        q[2] = k /\ Join(q[1]) = patternKey}
    IN  IF \E n \in DOMAIN pat : pat[n] = "*"
        THEN {k \in members : Glob(Join(c.prefix) \o <<":">> \o pat,
                                    Join(BuildKey(c, k)))}
        ELSE members
\* CacheImpl.invalidatePattern(pattern)
InvalidateGlob(c, i, pat) ==
    /\ FirstIdleCaller(c)
    /\ i \in cfg.insts
    /\ storeUp
    /\ InvalidateKeys(c, i, "invalidatePattern", pat, "pattern",
                      GetKeysByGlob(cfg, patIdx, pat))
    /\ UNCHANGED <<patIdx, tagIdx>>

\* PubSubHandler.subscribe: the subscriber connection of instance i is
\* subscribed and the message handler registered
Subscribe(i) ==
    /\ i \in cfg.insts
    /\ cfg.pubsub /\ cfg.mode = "server"
    /\ ~subscribed[i]
    /\ subscribed' = [subscribed EXCEPT ![i] = TRUE]
    /\ UNCHANGED <<now, cfg, storeUp, outages, store, vers, vstore, patIdx,
                   tagIdx, local, pending, breakers, tasks, callers, errEvents,
                   versExp, bus, invEvents, countVars>>
    /\ UNCHANGED harnessVars

\* setupPubSub(), the handler: the next message reaches instance i, which
\* deletes the message's keys from its LocalCache and emits 'invalidate'
Deliver(i) ==
    /\ bus[i] # <<>>
    /\ Head(bus[i]).kind # "unsubscribed"
    /\ LET m == Head(bus[i]) IN
       /\ local' = LocalAfterDel(i, m.keys)
       /\ invEvents' = [invEvents EXCEPT ![i] = @ \cup {m}]
    /\ bus' = [bus EXCEPT ![i] = Tail(@)]
    /\ UNCHANGED <<now, cfg, storeUp, outages, store, vers, vstore, patIdx,
                   tagIdx, pending, breakers, tasks, callers, errEvents,
                   versExp, subscribed, countVars>>
    /\ UNCHANGED harnessVars

\* what get() hands back for a stored entry it does not unwrap
Payload(e) == IF e.meta THEN "wrapper" ELSE e.val

\* VersionedCache.get, lines 17-18: the version counter is read
SlGetVersion(c) ==
    /\ callers[c].pc = "sl_ver"
    /\ LET cr == callers[c] IN
       callers' = [callers EXCEPT
          ![c] = IF storeUp
                 THEN [cr EXCEPT !.pc = "sl_read",
                                 !.ver = IF VersionGet(cr.key) = -1 THEN 0
                                         ELSE VersionGet(cr.key)]
                 ELSE Reject(cr, "storeError")]
    /\ UNCHANGED <<now, cfg, storeUp, outages, store, vers, vstore, patIdx,
                   tagIdx, local, pending, breakers, tasks, errEvents>>
    /\ UNCHANGED harnessVars
    /\ UNCHANGED <<versExp, busVars, countVars>>

\* VersionedCache.get, lines 21-28, and get(), lines 150-189: the versioned
\* payload is read; a truthy payload is a hit, anything else a miss that
\* calls config.fetch directly
SlGetPayload(c) ==
    /\ callers[c].pc = "sl_read"
    /\ LET cr == callers[c]
           e == vstore[cr.key][cr.ver]
       IN
       IF ~storeUp
       THEN /\ callers' = [callers EXCEPT ![c] = Reject(cr, "storeError")]
            /\ UNCHANGED <<tasks, pending>>
       ELSE IF Live(e, now) /\ Truthy(Payload(e))
       THEN /\ callers' = [callers EXCEPT
                   ![c] = Resolve(Hit(cr, e, "store"), Payload(e))]
            /\ UNCHANGED <<tasks, pending>>
       ELSE IF cfg.fetch
       THEN StartFetch(c, cr, "slfetch", FALSE, "sl_wait")
       ELSE /\ callers' = [callers EXCEPT ![c] = Resolve(cr, "null")]
            /\ UNCHANGED <<tasks, pending>>
    /\ UNCHANGED <<now, cfg, storeUp, outages, store, vers, vstore, patIdx,
                   tagIdx, local, breakers, errEvents>>
    /\ UNCHANGED harnessVars
    /\ UNCHANGED <<versExp, busVars, countVars>>

\* VersionedCache.set, lines 33-41: the version counter is read and, when
\* there is none, written as '0' and given its expiry
SlTaskVersion(t) ==
    /\ t \in DOMAIN tasks
    /\ tasks[t].stage \in {"sl_getver", "sl_initver", "sl_expver"}
    /\ LET k == tasks[t].key IN
       IF ~storeUp
       THEN /\ TaskFails(t, "storeError")
            /\ UNCHANGED <<vers, versExp>>
       ELSE IF tasks[t].stage = "sl_getver"
       THEN /\ tasks' = [tasks EXCEPT
                  ![t].ver = IF VersionGet(k) = -1 THEN 0 ELSE VersionGet(k),
                  ![t].stage = IF VersionGet(k) = -1 THEN "sl_initver"
                               ELSE "sl_setex"]
            /\ UNCHANGED <<vers, versExp, pending>>
       ELSE IF tasks[t].stage = "sl_initver"
       THEN /\ vers' = [vers EXCEPT ![k] = 0]
            /\ versExp' = [versExp EXCEPT ![k] = -1]
            /\ tasks' = [tasks EXCEPT ![t].stage = "sl_expver"]
            /\ UNCHANGED pending
       ELSE /\ versExp' = IF VersionGet(k) # -1
                          THEN [versExp EXCEPT ![k] = now + VersionTTL]
                          ELSE versExp
            /\ tasks' = [tasks EXCEPT ![t].stage = "sl_setex"]
            /\ UNCHANGED <<vers, pending>>
    /\ UNCHANGED <<now, cfg, storeUp, outages, store, vstore, patIdx, tagIdx,
                   local, breakers, callers, errEvents>>
    /\ UNCHANGED harnessVars
    /\ UNCHANGED <<busVars, countVars>>

\* VersionedCache.set, lines 44-51: the versioned payload is written
SlTaskSetex(t) ==
    /\ t \in DOMAIN tasks
    /\ tasks[t].stage = "sl_setex"
    /\ LET k == tasks[t].key IN
       IF storeUp
       THEN /\ vstore' = [vstore EXCEPT
                  ![k][tasks[t].ver] = RedisSet(tasks[t].ent, TaskTTL(t), now)]
            /\ tasks' = [tasks EXCEPT ![t].stage = "track"]
            /\ writes' = writes + 1
            /\ UNCHANGED pending
       ELSE /\ TaskFails(t, "storeError")
            /\ UNCHANGED <<vstore, writes>>
    /\ UNCHANGED <<now, cfg, storeUp, outages, store, vers, patIdx, tagIdx,
                   local, breakers, callers, errEvents>>
    /\ UNCHANGED harnessVars
    /\ UNCHANGED <<versExp, busVars, setEvents>>

(***************************************************************************)
(* SpecGet: concurrent get(k) calls of one instance on a cold cache, the    *)
(* store healthy or failing, the fetch function succeeding or failing.      *)
(***************************************************************************)
InitHarness ==
    /\ now = 0
    /\ breaker = NewBreaker
    /\ calls = [c \in 1..ExecCallers |-> IdleCall]
    /\ nexec = 0
    /\ errorLog = [count |-> 0, last |-> "none"]
    /\ lastEv = NoEvent
    /\ consecFail = 0
    /\ hoSucc = 0
    /\ hoStarts = 0
    /\ lcache = [max |-> DefaultMaxSize, slots |-> <<>>, ins |-> <<>>,
                 ops |-> 0, last |-> [op |-> "none", key |-> "none"]]

GetConfigs ==
    [mode : {"server", "serverless"}, fetch : BOOLEAN, dedupe : BOOLEAN,
     ttl : {0}, swr : {0}, sliding : {FALSE}, tags : {FALSE}, local : {TRUE},
     insts : {{"A"}}, ncallers : {GetCallers},
     keys : {{"k"}}, prefix : {<<"p">>}, tagged : {{}},
     pubsub : {TRUE}, invalidates : {{}}]

InitGet == InitHarness /\ InitCache(GetConfigs)

NextGet ==
    \/ \E c \in DOMAIN callers, k \in cfg.keys : GetStart(c, "A", k)
    \/ \E c \in DOMAIN callers : StoreReadReply(c)
    \/ \E c \in DOMAIN callers : Resume(c)
    \/ \E c \in DOMAIN callers : SlGetVersion(c)
    \/ \E c \in DOMAIN callers : SlGetPayload(c)
    \/ \E t \in 1..MaxTasks, o \in FetchValues \cup {"null", "fetchError"} :
          FetchSettle(t, o)
    \/ \E t \in 1..MaxTasks : TaskSetex(t)
    \/ \E t \in 1..MaxTasks : TaskIndex(t)
    \/ \E t \in 1..MaxTasks : SlTaskVersion(t)
    \/ \E t \in 1..MaxTasks : SlTaskSetex(t)
    \/ StoreDown
    \/ StoreRecover

SpecGet == InitGet /\ [][NextGet]_vars

(***************************************************************************)
(* SpecDedupe: concurrent get(k) calls of one server-mode instance on a     *)
(* cold cache with a healthy store.                                        *)
(***************************************************************************)
DedupeConfigs ==
    [mode : {"server"}, fetch : {TRUE}, dedupe : BOOLEAN,
     ttl : {0}, swr : {0}, sliding : {FALSE}, tags : {FALSE}, local : {TRUE},
     insts : {{"A"}}, ncallers : {GetCallers},
     keys : {{"k"}}, prefix : {<<"p">>}, tagged : {{}},
     pubsub : {TRUE}, invalidates : {{}}]

InitDedupe == InitHarness /\ InitCache(DedupeConfigs)

NextDedupe ==
    \/ \E c \in DOMAIN callers, k \in cfg.keys : GetStart(c, "A", k)
    \/ \E c \in DOMAIN callers : StoreReadReply(c)
    \/ \E c \in DOMAIN callers : Resume(c)
    \/ \E t \in 1..MaxTasks, o \in FetchValues \cup {"null", "fetchError"} :
          FetchSettle(t, o)
    \/ \E t \in 1..MaxTasks : TaskSetex(t)
    \/ \E t \in 1..MaxTasks : TaskIndex(t)

SpecDedupe == InitDedupe /\ [][NextDedupe]_vars

(***************************************************************************)
(* SpecTTL: set(k, v) and get(k) calls of two server-mode instances that    *)
(* share the store, with a ttl and a clock; the store is healthy.  The      *)
(* instances are alike, so set() is called on A and get() on A or B.        *)
(***************************************************************************)
TTLConfigs ==
    [mode : {"server"}, fetch : {FALSE}, dedupe : {TRUE},
     ttl : {TTL}, swr : {0}, sliding : BOOLEAN, tags : {FALSE},
     local : {TRUE}, insts : {{"A", "B"}}, ncallers : {TTLCallers},
     keys : {{"k"}}, prefix : {<<"p">>}, tagged : {{}},
     pubsub : {TRUE}, invalidates : {{}}]

InitTTL == InitHarness /\ InitCache(TTLConfigs)

NextTTL ==
    \/ \E c \in DOMAIN callers, k \in cfg.keys, v \in SetValues :
          SetStart(c, "A", k, v)
    \/ \E c \in DOMAIN callers, i \in Inst, k \in cfg.keys : GetStart(c, i, k)
    \/ \E c \in DOMAIN callers : StoreReadReply(c)
    \/ \E c \in DOMAIN callers : ExpireReply(c)
    \/ \E c \in DOMAIN callers : Resume(c)
    \/ \E t \in 1..MaxTasks : TaskSetex(t)
    \/ \E t \in 1..MaxTasks : TaskIndex(t)
    \/ Tick

SpecTTL == InitTTL /\ [][NextTTL]_vars

(***************************************************************************)
(* SpecSWR: set(k, v) and get(k) calls of one server-mode instance with a   *)
(* ttl, a stale window, a fetch function and a clock; the store is healthy; *)
(* with and without LocalCache.  The first call is the set().               *)
(***************************************************************************)
SWRConfigs ==
    [mode : {"server"}, fetch : {TRUE}, dedupe : {TRUE},
     ttl : {SwrTTL}, swr : 1..StaleWindow, sliding : {FALSE}, tags : {FALSE},
     local : BOOLEAN, insts : {{"A"}}, ncallers : {SWRCallers},
     keys : {{"k"}}, prefix : {<<"p">>}, tagged : {{}},
     pubsub : {TRUE}, invalidates : {{}}]

InitSWR == InitHarness /\ InitCache(SWRConfigs)

NextSWR ==
    \/ \E k \in cfg.keys, v \in SetValues : SetStart(1, "A", k, v)
    \/ \E c \in DOMAIN callers \ {1}, k \in cfg.keys : GetStart(c, "A", k)
    \/ \E c \in DOMAIN callers : StoreReadReply(c)
    \/ \E c \in DOMAIN callers : Resume(c)
    \/ \E t \in 1..MaxTasks, o \in {"f1", "fetchError"} : FetchSettle(t, o)
    \/ \E t \in 1..MaxTasks : TaskSetex(t)
    \/ \E t \in 1..MaxTasks : TaskIndex(t)
    \/ Tick

SpecSWR == InitSWR /\ [][NextSWR]_vars

(***************************************************************************)
(* SpecMiss: get(k) calls of one server-mode instance on a key that is      *)
(* never set, made one after the other (each is awaited before the next);  *)
(* with and without a fetch function, dedupe, LocalCache and a ttl; the     *)
(* store is healthy.  The fetch function yields a value (one of them falsy) *)
(* or null.                                                                 *)
(***************************************************************************)
MissConfigs ==
    [mode : {"server"}, fetch : BOOLEAN, dedupe : BOOLEAN,
     ttl : {0, TTL}, swr : {0}, sliding : {FALSE}, tags : {FALSE},
     local : BOOLEAN, insts : {{"A"}}, ncallers : {MissCallers},
     keys : {{"k"}}, prefix : {<<"p">>}, tagged : {{}},
     pubsub : {TRUE}, invalidates : {{}}]
\* what the fetch function yields
MissFetchOutcomes == {"f1", "zero", "null"}
\* no call is in progress
NoCallRunning == \A d \in DOMAIN callers : callers[d].pc \in {"idle", "done"}

InitMiss == InitHarness /\ InitCache(MissConfigs)

NextMiss ==
    \/ \E c \in DOMAIN callers, k \in cfg.keys :
          NoCallRunning /\ GetStart(c, "A", k)
    \/ \E c \in DOMAIN callers : StoreReadReply(c)
    \/ \E c \in DOMAIN callers : Resume(c)
    \/ \E t \in 1..MaxTasks, o \in MissFetchOutcomes : FetchSettle(t, o)
    \/ \E t \in 1..MaxTasks : TaskSetex(t)
    \/ \E t \in 1..MaxTasks : TaskIndex(t)
    \/ Tick

SpecMiss == InitMiss /\ [][NextMiss]_vars

(***************************************************************************)
(* SpecInv: set, get, invalidate, invalidateTag and invalidatePattern calls *)
(* of one instance on two keys of two cache definitions ("k" of "user",     *)
(* tagged "t", and "j" of "post"), made one after the other, in server and  *)
(* in serverless mode, with and without a fetch function, with a prefix of  *)
(* one segment ("p") or two ("t:a"), no ttl, and a clock that may jump a    *)
(* day; the store is healthy.                                               *)
(***************************************************************************)
InvConfigs ==
    [mode : {"server", "serverless"}, fetch : BOOLEAN, dedupe : {TRUE},
     ttl : {0}, swr : {0}, sliding : {FALSE}, tags : {TRUE}, local : {TRUE},
     insts : {{"A"}}, ncallers : {InvCallers},
     keys : {{"k", "j"}}, prefix : {<<"p">>, <<"t", "a">>}, tagged : {{"k"}},
     pubsub : {TRUE}, invalidates : {{}}]
\* the cache definitions' names and the tags in use
Names == {NameOf(k) : k \in Keys}
Tags == {"t"}

InitInv == InitHarness /\ InitCache(InvConfigs)

NextInv ==
    \/ \E c \in DOMAIN callers, k \in cfg.keys, v \in SetValues :
          NoCallRunning /\ SetStart(c, "A", k, v)
    \/ \E c \in DOMAIN callers, k \in cfg.keys :
          NoCallRunning /\ GetStart(c, "A", k)
    \/ \E c \in DOMAIN callers, k \in cfg.keys :
          NoCallRunning /\ Invalidate(c, "A", k)
    \/ \E c \in DOMAIN callers, t \in Tags :
          NoCallRunning /\ InvalidateTag(c, "A", t)
    \/ \E c \in DOMAIN callers, n \in Names :
          NoCallRunning /\ InvalidatePattern(c, "A", n)
    \/ \E c \in DOMAIN callers : StoreReadReply(c)
    \/ \E c \in DOMAIN callers : SlGetVersion(c)
    \/ \E c \in DOMAIN callers : SlGetPayload(c)
    \/ \E c \in DOMAIN callers : Resume(c)
    \/ \E t \in 1..MaxTasks : FetchSettle(t, "f1")
    \/ \E t \in 1..MaxTasks : TaskSetex(t)
    \/ \E t \in 1..MaxTasks : SlTaskVersion(t)
    \/ \E t \in 1..MaxTasks : SlTaskSetex(t)
    \/ \E t \in 1..MaxTasks : TaskIndex(t)
    \/ TickDay

SpecInv == InitInv /\ [][NextInv]_vars

(***************************************************************************)
(* SpecPubSub: two server-mode instances with LocalCache and pub/sub share  *)
(* the store.  Calls are made one after the other: set on A or B, get on B, *)
(* and the invalidations on A; with and without a cascading invalidation    *)
(* of "j" by "k".  Each instance's subscription completes at some point,    *)
(* and the messages published to it are delivered in order.                 *)
(***************************************************************************)
PubSubConfigs ==
    [mode : {"server"}, fetch : {FALSE}, dedupe : {TRUE},
     ttl : {0}, swr : {0}, sliding : {FALSE}, tags : {TRUE}, local : {TRUE},
     insts : {{"A", "B"}}, ncallers : {PubSubCallers},
     keys : {{"k", "j"}}, prefix : {<<"p">>}, tagged : {{"k"}},
     pubsub : {TRUE}, invalidates : {{}, {<<"k", "j">>}}]

InitPubSub == InitHarness /\ InitCache(PubSubConfigs)

NextPubSub ==
    \/ \E c \in DOMAIN callers, i \in Inst, k \in cfg.keys, v \in SetValues :
          NoCallRunning /\ SetStart(c, i, k, v)
    \/ \E c \in DOMAIN callers, k \in cfg.keys :
          NoCallRunning /\ GetStart(c, "B", k)
    \/ \E c \in DOMAIN callers, k \in cfg.keys :
          NoCallRunning /\ Invalidate(c, "A", k)
    \/ \E c \in DOMAIN callers, t \in Tags :
          NoCallRunning /\ InvalidateTag(c, "A", t)
    \/ \E c \in DOMAIN callers, n \in Names :
          NoCallRunning /\ InvalidatePattern(c, "A", n)
    \/ \E c \in DOMAIN callers : StoreReadReply(c)
    \/ \E c \in DOMAIN callers : Resume(c)
    \/ \E t \in 1..MaxTasks : TaskSetex(t)
    \/ \E t \in 1..MaxTasks : TaskIndex(t)
    \/ \E i \in Inst : Subscribe(i)
    \/ \E i \in Inst : Deliver(i)

SpecPubSub == InitPubSub /\ [][NextPubSub]_vars
\* a published message is delivered to a subscribed connection: the handler
\* of every instance is eventually run for the message at the head of its queue
SpecPubSubFair == SpecPubSub /\ \A i \in Inst : WF_vars(Deliver(i))

(***************************************************************************)
(* SpecWrap: one set(k, v) and get(k) calls of one instance, concurrent and *)
(* in any order, in server and in serverless mode, with a ttl, with and    *)
(* without a stale window, a fetch function and a clock; the store is      *)
(* healthy.                                                                *)
(***************************************************************************)
WrapConfigs ==
    [mode : {"server", "serverless"}, fetch : {TRUE}, dedupe : {TRUE},
     ttl : {SwrTTL}, swr : 0..StaleWindow, sliding : {FALSE}, tags : {FALSE},
     local : {TRUE}, insts : {{"A"}}, ncallers : {SWRCallers - 1},
     keys : {{"k"}}, prefix : {<<"p">>}, tagged : {{}},
     pubsub : {TRUE}, invalidates : {{}}]

InitWrap == InitHarness /\ InitCache(WrapConfigs)

NextWrap ==
    \/ \E k \in cfg.keys, v \in SetValues : SetStart(1, "A", k, v)
    \/ \E c \in DOMAIN callers \ {1}, k \in cfg.keys : GetStart(c, "A", k)
    \/ \E c \in DOMAIN callers : StoreReadReply(c)
    \/ \E c \in DOMAIN callers : SlGetVersion(c)
    \/ \E c \in DOMAIN callers : SlGetPayload(c)
    \/ \E c \in DOMAIN callers : Resume(c)
    \/ \E t \in 1..MaxTasks, o \in {"f1", "fetchError"} : FetchSettle(t, o)
    \/ \E t \in 1..MaxTasks : TaskSetex(t)
    \/ \E t \in 1..MaxTasks : SlTaskVersion(t)
    \/ \E t \in 1..MaxTasks : SlTaskSetex(t)
    \/ \E t \in 1..MaxTasks : TaskIndex(t)
    \/ Tick

SpecWrap == InitWrap /\ [][NextWrap]_vars

(***************************************************************************)
(* SpecGlob: set and invalidatePattern calls of one instance on the two     *)
(* entries of cache "post" ("j": post:1, "m": post:2), made one after the   *)
(* other, in server and in serverless mode, with a prefix of one segment    *)
(* or two; the store is healthy.                                            *)
(***************************************************************************)
GlobConfigs ==
    [mode : {"server", "serverless"}, fetch : {FALSE}, dedupe : {TRUE},
     ttl : {0}, swr : {0}, sliding : {FALSE}, tags : {FALSE}, local : {TRUE},
     insts : {{"A"}}, ncallers : {InvCallers},
     keys : {{"j", "m"}}, prefix : {<<"p">>, <<"t", "a">>}, tagged : {{}},
     pubsub : {TRUE}, invalidates : {{}}]
\* the patterns invalidatePattern is called with: post:*, user:*, post:1*,
\* post:*1 and post:*:1
GlobPatterns ==
    {<<"post", ":", "*">>, <<"user", ":", "*">>, <<"post", ":", "1", "*">>,
     <<"post", ":", "*", "1">>, <<"post", ":", "*", ":", "1">>}

InitGlob == InitHarness /\ InitCache(GlobConfigs)

NextGlob ==
    \/ \E c \in DOMAIN callers, k \in cfg.keys, v \in SetValues :
          NoCallRunning /\ SetStart(c, "A", k, v)
    \/ \E c \in DOMAIN callers, pat \in GlobPatterns :
          NoCallRunning /\ InvalidateGlob(c, "A", pat)
    \/ \E c \in DOMAIN callers : Resume(c)
    \/ \E t \in 1..MaxTasks : TaskSetex(t)
    \/ \E t \in 1..MaxTasks : SlTaskVersion(t)
    \/ \E t \in 1..MaxTasks : SlTaskSetex(t)
    \/ \E t \in 1..MaxTasks : TaskIndex(t)

SpecGlob == InitGlob /\ [][NextGlob]_vars

(***************************************************************************)
(* SpecRace: one instance and one key, in server and in serverless mode,    *)
(* with set, get and invalidate calls that run concurrently: a call is made *)
(* while the store calls of earlier set and get calls are still             *)
(* outstanding.                                                             *)
(***************************************************************************)
InitRace ==
    /\ InitHarness
    /\ InitCache(
         [mode : {"server", "serverless"}, fetch : {TRUE}, dedupe : {TRUE},
          ttl : {0}, swr : {0}, sliding : {FALSE}, tags : {TRUE},
          local : {TRUE}, insts : {{"A"}}, ncallers : {InvCallers},
          keys : {{"k"}}, prefix : {<<"p">>}, tagged : {{"k"}},
          pubsub : {TRUE}, invalidates : {{}}])

NextRace ==
    \/ \E c \in DOMAIN callers, k \in cfg.keys, v \in SetValues :
          SetStart(c, "A", k, v)
    \/ \E c \in DOMAIN callers, k \in cfg.keys : GetStart(c, "A", k)
    \/ \E c \in DOMAIN callers, k \in cfg.keys : Invalidate(c, "A", k)
    \/ \E c \in DOMAIN callers : StoreReadReply(c)
    \/ \E c \in DOMAIN callers : SlGetVersion(c)
    \/ \E c \in DOMAIN callers : SlGetPayload(c)
    \/ \E c \in DOMAIN callers : Resume(c)
    \/ \E t \in 1..MaxTasks : FetchSettle(t, "f1")
    \/ \E t \in 1..MaxTasks : TaskSetex(t)
    \/ \E t \in 1..MaxTasks : SlTaskVersion(t)
    \/ \E t \in 1..MaxTasks : SlTaskSetex(t)
    \/ \E t \in 1..MaxTasks : TaskIndex(t)
    \/ TickDay

SpecRace == InitRace /\ [][NextRace]_vars

(***************************************************************************)
(* SpecLate: the two instances of SpecPubSub, with set on A or B and        *)
(* invalidate on A, each made when no set is outstanding, and get calls on  *)
(* B that run concurrently with them; the reply to a get's store read may   *)
(* reach B after messages the store published later.                        *)
(***************************************************************************)
NextLate ==
    LET noSet == \A d \in DOMAIN callers :
                    callers[d].op = "set" => callers[d].pc = "done"
    IN
    \/ \E c \in DOMAIN callers, i \in Inst, k \in cfg.keys, v \in SetValues :
          noSet /\ SetStart(c, i, k, v)
    \/ \E c \in DOMAIN callers, k \in cfg.keys : GetStart(c, "B", k)
    \/ \E c \in DOMAIN callers, k \in cfg.keys :
          noSet /\ Invalidate(c, "A", k)
    \/ \E c \in DOMAIN callers : StoreReadReply(c)
    \/ \E c \in DOMAIN callers : StoreAnswers(c)
    \/ \E c \in DOMAIN callers : ReplyArrives(c)
    \/ \E c \in DOMAIN callers : Resume(c)
    \/ \E t \in 1..MaxTasks : TaskSetex(t)
    \/ \E t \in 1..MaxTasks : TaskIndex(t)
    \/ \E i \in Inst : Subscribe(i)
    \/ \E i \in Inst : Deliver(i)

SpecLate == InitPubSub /\ [][NextLate]_vars

(***************************************************************************)
(* SpecTagRace: set and invalidateTag calls of one instance on two keys     *)
(* that both carry tag "t", in server and in serverless mode; a call is     *)
(* made while the store calls of earlier ones are still outstanding; the    *)
(* store is healthy.                                                        *)
(***************************************************************************)
TagRaceConfigs ==
    [mode : {"server", "serverless"}, fetch : {FALSE}, dedupe : {TRUE},
     ttl : {0}, swr : {0}, sliding : {FALSE}, tags : {TRUE}, local : {TRUE},
     insts : {{"A"}}, ncallers : {InvCallers},
     keys : {{"k", "j"}}, prefix : {<<"p">>}, tagged : {{"k", "j"}},
     pubsub : {TRUE}, invalidates : {{}}]

InitTagRace == InitHarness /\ InitCache(TagRaceConfigs)

NextTagRace ==
    \/ \E c \in DOMAIN callers, k \in cfg.keys, v \in SetValues :
          SetStart(c, "A", k, v)
    \/ \E c \in DOMAIN callers, t \in Tags : InvalidateTagRead(c, "A", t)
    \/ \E c \in DOMAIN callers : InvalidateTagFinish(c)
    \/ \E c \in DOMAIN callers : Resume(c)
    \/ \E t \in 1..MaxTasks : TaskSetex(t)
    \/ \E t \in 1..MaxTasks : SlTaskVersion(t)
    \/ \E t \in 1..MaxTasks : SlTaskSetex(t)
    \/ \E t \in 1..MaxTasks : TaskIndex(t)

SpecTagRace == InitTagRace /\ [][NextTagRace]_vars

(***************************************************************************)
(* SpecRoundTrip: the configurations of SpecWrap with one set(k, v), v a    *)
(* string, 0, the empty string, false or an object with a 'data' and an     *)
(* 'expiresAt' field, followed by get(k) calls, each call made after the    *)
(* one before has returned.                                                 *)
(***************************************************************************)
RoundTripValues == {"v1", "zero", "empty", "false", "lookalike"}

NextRoundTrip ==
    \/ \E k \in cfg.keys, v \in RoundTripValues : SetStart(1, "A", k, v)
    \/ \E c \in DOMAIN callers \ {1}, k \in cfg.keys :
          NoCallRunning /\ GetStart(c, "A", k)
    \/ \E c \in DOMAIN callers : StoreReadReply(c)
    \/ \E c \in DOMAIN callers : SlGetVersion(c)
    \/ \E c \in DOMAIN callers : SlGetPayload(c)
    \/ \E c \in DOMAIN callers : Resume(c)
    \/ \E t \in 1..MaxTasks, o \in {"f1", "fetchError"} : FetchSettle(t, o)
    \/ \E t \in 1..MaxTasks : TaskSetex(t)
    \/ \E t \in 1..MaxTasks : SlTaskVersion(t)
    \/ \E t \in 1..MaxTasks : SlTaskSetex(t)
    \/ \E t \in 1..MaxTasks : TaskIndex(t)
    \/ Tick

SpecRoundTrip == InitWrap /\ [][NextRoundTrip]_vars

(***************************************************************************)
(* Claims about get() and set()                                            *)
(***************************************************************************)
DoneGets == {c \in DOMAIN callers : callers[c].op = "get" /\ callers[c].pc = "done"}
\* every invocation of the fetch function so far yielded a value, or is
\* still in flight
FetchYieldsValues ==
    \A t \in FetchTasks : tasks[t].err # "fetchError" /\ tasks[t].val # "null"

\* C1 (checked under SpecDedupe: server mode, store healthy, cold cache): with
\* dedupe on and a fetch function that yields a value, the concurrent get(k)
\* calls invoke the fetch function at most once, exactly once as soon as one
\* of them has settled, and every settled call resolved to that fetched value.
C1_ConcurrentGetsFetchOnce ==
    (cfg.mode = "server" /\ cfg.fetch /\ cfg.dedupe /\ outages = 0
       /\ FetchYieldsValues)
    => /\ Cardinality(FetchTasks) <= 1
       /\ \A c \in DoneGets :
             /\ callers[c].out = "resolved"
             /\ Cardinality(FetchTasks) = 1
             /\ \A t \in FetchTasks : callers[c].res = tasks[t].val
\* reached: every get has resolved, each having awaited the one fetch that
\* Deduplicator registered
C1_Witness ==
    /\ cfg.dedupe /\ Cardinality(FetchTasks) = 1
    /\ DoneGets = DOMAIN callers
    /\ \A c \in DOMAIN callers :
          /\ callers[c].task = 1 /\ callers[c].out = "resolved"
          /\ callers[c].res = tasks[1].val /\ tasks[1].val \in FetchValues

\* C2 (as claimed): with dedupe on, at most one invocation of the fetch
\* function is in flight per key and instance.
C2_OneFetchInFlight ==
    cfg.dedupe => \A i \in Inst, k \in Keys : Cardinality(InFlight(i, k)) <= 1

\* C3 (as claimed): a get that awaited a fetch that failed rejects with the
\* fetch error.
C3_FetchErrorPropagates ==
    \A c \in DoneGets :
        callers[c].fetchFailed
        => (callers[c].out = "rejected" /\ callers[c].res = "fetchError")

\* C4 (as claimed): in server mode a get never rejects with a store error.
C4_StoreErrorNotThrown ==
    \A c \in DoneGets :
        cfg.mode = "server"
        => ~(callers[c].out = "rejected" /\ callers[c].res = "storeError")

\* C10 (as claimed): ttl = T, no stale-while-revalidate, no sliding, no fetch
\* function, one set(k, v) whose entry expires in the store at t0 + T: a get
\* started after the set completed returns v when it settles before t0 + T
\* and null when it starts after t0 + T, on every instance.
OneSet == Cardinality({d \in DOMAIN callers : callers[d].op = "set"}) = 1
C10_TTLRespected ==
    \A c \in DoneGets :
        LET cr == callers[c] IN
        (cr.afterSet /\ OneSet /\ cfg.mode = "server" /\ cfg.ttl > 0
           /\ cfg.swr = 0 /\ ~cfg.sliding /\ ~cfg.fetch)
        => /\ now < store[cr.key].exp => cr.res = store[cr.key].val
           /\ cr.at > store[cr.key].exp => cr.res = "null"

(***************************************************************************)
(* Claims about stale-while-revalidate, checked under SpecSWR: server      *)
(* mode, store healthy, ttl SwrTTL, stale window StaleWindow, a fetch      *)
(* function, one set(k) followed by get(k) calls.                          *)
(***************************************************************************)
\* the age of a stored entry at time t, as the claims word it: fresh up to
\* its expiry, inside the stale window after it, past the stale bound beyond
FreshAt(e, t) == e.val # "absent" /\ (~e.meta \/ t <= e.expiresAt)
InWindowAt(e, t) ==
    e.val # "absent" /\ e.meta /\ t > e.expiresAt /\ t <= e.staleUntil
PastBoundAt(e, t) == e.val # "absent" /\ e.meta /\ t > e.staleUntil
\* the step in which get call c consults LocalCache (its first step) or
\* receives the store's reply, and the step in which it returns
LocalConsultStep(c) ==
    callers[c].pc = "idle" /\ callers'[c].op = "get" /\ cfg.local
StoreConsultStep(c) ==
    callers[c].pc = "p_read" /\ callers'[c].pc # "p_read" /\ storeUp
ReturnStep(c) ==
    callers[c].pc # "done" /\ callers'[c].pc = "done" /\ callers'[c].op = "get"
\* what the consulted cache holds for the call's key
LocalFound(c) == LocalGet(callers'[c].inst, callers'[c].key)
StoreFound(c) == RedisGet(callers[c].key)
\* the call awaits a fetch in flight
AwaitsFetch(c) ==
    /\ callers'[c].pc \in {"p_wait", "fb_wait"}
    /\ callers'[c].task \in DOMAIN tasks'
    /\ tasks'[callers'[c].task].kind = "fetch"
\* exactly one background fetch-and-store was started and nothing else
OneBackgroundStarted(c) ==
    /\ Len(tasks') = Len(tasks) + 1
    /\ SubSeq(tasks', 1, Len(tasks)) = tasks
    /\ tasks'[Len(tasks')] =
           NewTask(callers'[c].inst, callers'[c].key, "bg", "fetch", FALSE)
SWRGets == DOMAIN callers \ {1}

\* C11: no get returns, from LocalCache or from the store, a payload whose
\* stale bound (t0 + T + S) has passed; a get that finds such a copy in
\* LocalCache evicts it and goes on to the store, and a get that finds such a
\* payload (or nothing) in the store awaits a fetch.
C11_NeverServedPastStaleBound ==
    [][\A c \in SWRGets :
         /\ (ReturnStep(c) /\ callers'[c].src \in {"local", "store"})
            => ~PastBoundAt(callers'[c].served, now)
         /\ (LocalConsultStep(c) /\ PastBoundAt(LocalFound(c), now))
            => /\ local'[callers'[c].inst][callers'[c].key] = NoSlot
               /\ callers'[c].pc = "p_read"
         /\ (StoreConsultStep(c)
               /\ (PastBoundAt(StoreFound(c), now)
                     \/ StoreFound(c).val = "absent"))
            => AwaitsFetch(c)
      ]_vars
\* reached: a get made after the set's stale bound found the past-bound copy
\* in LocalCache, evicted it and resolved with a freshly fetched value
C11_Witness ==
    \E c \in DoneGets :
        /\ callers[c].evicted /\ callers[c].src = "fetch"
        /\ callers[c].out = "resolved" /\ callers[c].res \in FetchValues
        /\ tasks[1].kind = "set" /\ callers[c].at > tasks[1].ent.staleUntil

\* C12: a get that finds, in LocalCache or in the store, an entry inside its
\* stale window returns that entry's payload in the same step, awaiting
\* nothing, and starts exactly one background fetch-and-store; before T + S
\* has elapsed since the completed set the store does hold a payload; and when every get was
\* made after the set had completed, a get made after a background refresh
\* has stored its value resolves with a fetched value, never the set's one.
C12_StaleServedAndRefreshed ==
    /\ [][\A c \in SWRGets :
            /\ (LocalConsultStep(c) /\ InWindowAt(LocalFound(c), now))
               => /\ callers'[c].pc = "done" /\ callers'[c].out = "resolved"
                  /\ callers'[c].res = LocalFound(c).val
                  /\ callers'[c].task = 0
                  /\ OneBackgroundStarted(c)
            /\ (StoreConsultStep(c) /\ InWindowAt(StoreFound(c), now))
               => /\ callers'[c].pc = "done" /\ callers'[c].out = "resolved"
                  /\ callers'[c].res = StoreFound(c).val
                  /\ callers'[c].task = 0
                  /\ OneBackgroundStarted(c)
         ]_vars
    /\ []((callers[1].pc = "done" /\ now < tasks[1].ent.staleUntil)
            => RedisGet("k").val # "absent")
    /\ []((\A d \in SWRGets : callers[d].op = "get" => callers[d].afterSet)
            => \A c \in DoneGets :
                  (callers[c].afterRefresh /\ callers[c].out = "resolved")
                  => callers[c].res \in FetchValues)
\* reached: after the set, a get inside the stale window was served the set's
\* payload, the background refresh it started has stored "f1", and a later get
\* was served "f1" from the cache
C12_Witness ==
    \E c, d \in DoneGets :
        /\ callers[c].afterSet /\ callers[c].src \in {"local", "store"}
        /\ InWindowAt(callers[c].served, callers[c].at)
        /\ callers[c].res \in SetValues
        /\ \E t \in DOMAIN tasks :
              tasks[t].kind = "bg" /\ tasks[t].stage = "done"
        /\ callers[d].afterRefresh /\ callers[d].src \in {"local", "store"}
        /\ callers[d].res \in FetchValues

ExpireStep(c) ==
    callers[c].pc \in {"p_expire", "l_expire"} /\ callers'[c].pc = "done"
AllCalls == DOMAIN callers
\* with sliding: a get that finds the entry goes on to reset the store expiry,
\* which becomes T counted from the reset, and while the store entry lives a
\* get made after the set returned the value
C14_SlidingPart ==
    /\ [][\A c \in AllCalls :
            /\ (ExpireStep(c) /\ Live(store[callers[c].key], now))
               => store'[callers[c].key].exp = now + GetTTL(cfg)
            /\ (cfg.sliding /\ callers'[c].op = "get"
                  /\ \/ LocalConsultStep(c) /\ LocalFound(c).val # "absent"
                     \/ StoreConsultStep(c) /\ StoreFound(c).val # "absent")
               => callers'[c].pc \in {"p_expire", "l_expire"}
         ]_vars
    /\ [](\A c \in DoneGets :
            (cfg.sliding /\ OneSet /\ callers[c].afterSet
               /\ now < store[callers[c].key].exp)
            => callers[c].res = store[callers[c].key].val)
\* without sliding: a get made after the store entry's expiry found nothing
C14_FixedPart ==
    \A c \in DoneGets :
        (~cfg.sliding /\ OneSet /\ callers[c].afterSet
           /\ callers[c].at > store[callers[c].key].exp)
        => callers[c].res = "null"

\* C14 (as claimed): with sliding, every get that hits resets the store expiry
\* to T from then on, so the value is still returned while that expiry has
\* not passed; without sliding a get after the set's T has elapsed finds the
\* entry absent.
C14_SlidingExtendsElseExpires == C14_SlidingPart /\ []C14_FixedPart

(***************************************************************************)
(* Claims about a miss on a key never set, checked under SpecMiss.         *)
(***************************************************************************)
\* the first get's fetch has yielded a value and the get has returned
FirstGetFetched ==
    /\ cfg.fetch /\ callers[1].pc = "done"
    /\ tasks # <<>> /\ tasks[1].stage = "done" /\ tasks[1].val # "null"

Stores(e, k) ==
    /\ callers[e].key = k
    /\ \/ callers[e].op = "set"
       \/ callers[e].op = "get" /\ callers[e].src = "fetch"
\* call d is an invalidation that names key k, its tag or its cache name
Targets(d, k) ==
    \/ callers[d].op = "invalidate" /\ callers[d].key = k
    \/ callers[d].op = "invalidateTag" /\ callers[d].arg \in TagsOf(cfg, k)
    \/ callers[d].op = "invalidatePattern" /\ callers[d].arg = NameOf(k)
\* before call c, key k was last touched by an invalidation of kind ops:
\* nothing stored a payload for k between that invalidation and c
LastInvalidated(c, k, ops) ==
    \E d \in 1..(c - 1) :
        /\ callers[d].op \in ops /\ Targets(d, k)
        /\ \A e \in (d + 1)..(c - 1) : ~Stores(e, k)
\* call c is an invalidation of kind op made in this step
InvalidationStep(c, op) == callers[c].pc = "idle" /\ callers'[c].op = op
\* everything kept for key x, payloads, version counter and LocalCache slot,
\* is as before the step
Untouched(x) ==
    /\ store'[x] = store[x] /\ vstore'[x] = vstore[x]
    /\ vers'[x] = vers[x] /\ versExp'[x] = versExp[x]
    /\ \A i \in Inst : local'[i][x] = local[i][x]
\* get call c found no entry: null without a fetch function, a fresh fetch
\* with one
Missed(c) ==
    /\ callers[c].out = "resolved"
    /\ IF cfg.fetch
       THEN callers[c].src = "fetch" /\ callers[c].res \in FetchValues
       ELSE callers[c].src = "none" /\ callers[c].res = "null"

\* C16 (as claimed): every invalidate(k) completes without error, also on a
\* key that is absent or already invalidated, where it leaves the stored
\* payloads as they are; and a get(k) whose key was last touched by an
\* invalidate(k) behaves as for a never-set key.
C16_InvalidateIdempotentTotal ==
    /\ [](\A c \in DOMAIN callers :
            callers[c].op = "invalidate"
            => callers[c].pc = "done" /\ callers[c].out = "resolved")
    /\ [][\A c \in DOMAIN callers :
            (InvalidationStep(c, "invalidate") /\ cfg.mode = "server"
               /\ RedisGet(callers'[c].key).val = "absent")
            => \A x \in Keys : RedisGet(x)' = RedisGet(x)]_vars
    /\ [](\A c \in DoneGets :
            LastInvalidated(c, callers[c].key, {"invalidate"}) => Missed(c))

\* C17 (as claimed): invalidateTag(t) leaves every key that does not carry t
\* untouched, and a get of a key that carries t and was last touched by
\* invalidateTag(t) misses, in server mode and in serverless mode.
C17_TagInvalidationRemovesTagged ==
    /\ [][\A c \in DOMAIN callers :
            InvalidationStep(c, "invalidateTag")
            => \A x \in Keys :
                  callers'[c].arg \notin TagsOf(cfg, x) => Untouched(x)]_vars
    /\ [](\A c \in DoneGets :
            LastInvalidated(c, callers[c].key, {"invalidateTag"}) => Missed(c))

\* C18 (as claimed): invalidatePattern("name:*") leaves every key of a cache
\* definition with another name untouched, removes nothing at all when no
\* entry of name is stored, and a get of a key of name that was last touched by
\* it misses.
C18_PatternInvalidationRemovesName ==
    /\ [][\A c \in DOMAIN callers :
            InvalidationStep(c, "invalidatePattern")
            => /\ \A x \in Keys :
                     NameOf(x) # callers'[c].arg => Untouched(x)
               /\ (\A x \in Keys : NameOf(x) = callers'[c].arg
                        => (store[x] = Absent /\ vers[x] = -1))
                  => \A x \in Keys : Untouched(x)]_vars
    /\ [](\A c \in DoneGets :
            LastInvalidated(c, callers[c].key, {"invalidatePattern"})
            => Missed(c))

\* C19 (as claimed): in serverless mode invalidate(k) adds one to k's version
\* counter and deletes no payload, and a get(k) whose key was last touched by
\* an invalidate(k) reports a miss.
C19_ServerlessInvalidateOrphans ==
    /\ [][\A c \in DOMAIN callers :
            (InvalidationStep(c, "invalidate") /\ cfg.mode = "serverless")
            => /\ vers'[callers'[c].key] =
                     (IF VersionGet(callers'[c].key) = -1 THEN 0
                      ELSE VersionGet(callers'[c].key)) + 1
               /\ vstore' = vstore /\ store' = store]_vars
    /\ [](cfg.mode = "serverless"
            => \A c \in DoneGets :
                  LastInvalidated(c, callers[c].key, {"invalidate"})
                  => callers[c].src # "store")

(***************************************************************************)
(* Claims about pub/sub, checked under SpecPubSubFair.                     *)
(***************************************************************************)
InvalidationOps == {"invalidate", "invalidateTag", "invalidatePattern"}
\* call c is a completed invalidation on A that removed keys, instance i was
\* subscribed when it published, and its message is on the way to i
PublishedTo(c, i) ==
    /\ callers[c].op \in InvalidationOps /\ callers[c].pc = "done"
    /\ callers[c].inst = "A" /\ callers[c].removed # {}
    /\ i \in callers[c].subs
    /\ \E n \in 1..Len(bus[i]) : bus[i][n].by = c
\* instance i has emitted the 'invalidate' event of call c's message
Observed(c, i) == \E ev \in invEvents[i] : ev.by = c
\* a call was made after call c (it may store the keys again)
LaterCall(c) == \E d \in DOMAIN callers : d > c /\ callers[d].pc # "idle"

\* C20 (as claimed): after an invalidation on A, every other instance that was
\* subscribed when it published eventually has none of the keys the
\* invalidation removed in its LocalCache and has emitted an 'invalidate'
\* event for it, unless a later call intervenes.
C20_SubscribersEvictAffectedKeys ==
    \A c \in 1..PubSubCallers : \A i \in Inst \ {"A"} :
        PublishedTo(c, i)
        ~> \/ /\ \A x \in callers[c].removed : local[i][x] = NoSlot
              /\ Observed(c, i)
           \/ LaterCall(c)
\* the same for the keys carried by the published message only
C20_PublishedKeysEvicted ==
    \A c \in 1..PubSubCallers : \A i \in Inst \ {"A"} :
        PublishedTo(c, i)
        ~> \/ /\ \A x \in callers[c].removed \ Cascade(cfg, callers[c].key) :
                    local[i][x] = NoSlot
              /\ Observed(c, i)
           \/ LaterCall(c)

(***************************************************************************)
(* getMany(), setMany(), invalidateMany() and warm().  Each is awaited by   *)
(* its caller before the next call is made and the store is healthy, so its *)
(* store calls are modelled as one step.                                    *)
(***************************************************************************)
\* the lists of keys and of {args, value} entries a bulk call is made with
KeyLists == UNION {[1..n -> cfg.keys] : n \in 0..MaxLen}
EntryLists(vals) ==
    UNION {[1..n -> [key : cfg.keys, val : vals]] : n \in 0..MaxLen}
KeysOf(es) == {es[n].key : n \in DOMAIN es}
\* the value the pipeline leaves for key x: that of the last entry for x
LastValue(es, x) ==
    LET n == CHOOSE n \in DOMAIN es :
                 es[n].key = x /\ \A h \in DOMAIN es : es[h].key = x => h <= n
    IN  es[n].val
\* the call record of a bulk call that has returned
Returned(c, i, op, list, result, n) ==
    [callers[c] EXCEPT !.op = op, !.inst = i, !.at = now, !.pc = "done",
                       !.out = "resolved", !.args = list, !.many = result,
                       !.fetched = n]

\* CacheDefinitionImpl.getMany(keys): redis.mget of the unversioned keys, each
\* value deserialized as it is stored
GetMany(c, i, ks) ==
    /\ FirstIdleCaller(c)
    /\ i \in cfg.insts
    /\ storeUp
    /\ callers' = [callers EXCEPT
          ![c] = Returned(c, i, "getMany", ks,
                          [n \in DOMAIN ks |->
                              IF RedisGet(ks[n]).val # "absent"
                              THEN Payload(RedisGet(ks[n])) ELSE "null"], 0)]
    /\ UNCHANGED <<now, cfg, storeUp, outages, store, vers, vstore, patIdx,
                   tagIdx, local, pending, breakers, tasks, errEvents>>
    /\ UNCHANGED harnessVars
    /\ UNCHANGED <<versExp, busVars, countVars>>

\* setMany(entries), lines 474-518: the pipeline writes every entry under its
\* unversioned key with the plain ttl, the indices are updated, LocalCache is
\* set and a 'set' event emitted per entry
SetManyWrites(i, es) ==
    LET ent(x) == [Absent EXCEPT !.val = LastValue(es, x)] IN
    /\ store' = [x \in Keys |->
                    IF x \in KeysOf(es)
                    THEN RedisSet(ent(x), GetTTL(cfg), now) ELSE store[x]]
    /\ patIdx' = patIdx \cup UNION {TrackKey(cfg, patIdx, x) : x \in KeysOf(es)}
    /\ tagIdx' = IF cfg.tags
                 THEN tagIdx \cup UNION {AddTags(cfg, tagIdx, x) : x \in KeysOf(es)}
                 ELSE tagIdx
    /\ local' = IF cfg.local /\ cfg.mode = "server"
                THEN [local EXCEPT
                        ![i] = [x \in Keys |->
                                  IF x \in KeysOf(es)
                                  THEN [ent |-> ent(x), start |-> now,
                                        ttl |-> GetTTL(cfg)]
                                  ELSE @[x]]]
                ELSE local
    /\ writes' = writes + Len(es)
    /\ setEvents' = setEvents + Len(es)

\* CacheDefinitionImpl.setMany(entries)
SetMany(c, i, es) ==
    /\ FirstIdleCaller(c)
    /\ i \in cfg.insts
    /\ storeUp
    /\ SetManyWrites(i, es)
    /\ callers' = [callers EXCEPT ![c] = Returned(c, i, "setMany", es, es, 0)]
    /\ UNCHANGED <<now, cfg, storeUp, outages, vers, vstore, pending, breakers,
                   tasks, errEvents>>
    /\ UNCHANGED harnessVars
    /\ UNCHANGED <<versExp, busVars>>

\* PubSubHandler.publishKeyInvalidation for each key of ks in turn
PublishEach(ks, c) ==
    [j \in Inst |->
        IF cfg.pubsub /\ cfg.mode = "server" /\ subscribed[j]
        THEN bus[j] \o [n \in DOMAIN ks |->
                           [kind |-> "key", keys |-> {ks[n]}, by |-> c]]
        ELSE bus[j]]

\* CacheDefinitionImpl.invalidateMany(keys) and, with top,
\* CacheImpl.invalidateMany(keys): redis.del of the unversioned keys,
\* LocalCache.delete and a key invalidation published per key; the top-level
\* one emits 'invalidate'
InvalidateMany(c, i, ks, top) ==
    /\ FirstIdleCaller(c)
    /\ i \in cfg.insts
    /\ storeUp
    /\ LET gone == {ks[n] : n \in DOMAIN ks} IN
       /\ store' = StoreAfterDel(gone)
       /\ local' = LocalAfterDel(i, gone)
       /\ bus' = PublishEach(ks, c)
       /\ invEvents' = IF top /\ ks # <<>>
                       THEN [invEvents EXCEPT
                               ![i] = @ \cup {[kind |-> "keys", keys |-> gone,
                                               by |-> c]}]
                       ELSE invEvents
       /\ callers' = [callers EXCEPT
             ![c] = [Returned(c, i, IF top THEN "cacheInvalidateMany"
                                    ELSE "invalidateMany", ks, <<>>, 0)
                       EXCEPT !.removed = gone, !.subs = Subscribers]]
    /\ UNCHANGED <<now, cfg, storeUp, outages, vers, vstore, patIdx, tagIdx,
                   pending, breakers, tasks, errEvents, versExp, subscribed,
                   countVars>>
    /\ UNCHANGED harnessVars

\* warm(), lines 547-570, for the entries 1..n of es, an entry without a value
\* having val "bare" and os[h] being what config.fetch settles with for entry
\* h: the entries to set, the fetch calls made, and whether one rejected
RECURSIVE WarmRun(_, _, _)
WarmRun(es, os, n) ==
    IF n = 0 THEN [toSet |-> <<>>, fetched |-> 0, err |-> FALSE]
    ELSE LET r == WarmRun(es, os, n - 1) IN
         IF r.err THEN r
         ELSE IF es[n].val # "bare"
         THEN [r EXCEPT !.toSet = Append(@, es[n])]
         ELSE IF ~cfg.fetch THEN r
         ELSE IF os[n] = "fetchError"
         THEN [r EXCEPT !.fetched = @ + 1, !.err = TRUE]
         ELSE IF os[n] = "null" THEN [r EXCEPT !.fetched = @ + 1]
         ELSE [r EXCEPT !.fetched = @ + 1,
                        !.toSet = Append(@, [key |-> es[n].key, val |-> os[n]])]

\* CacheDefinitionImpl.warm(entries)
Warm(c, i, es, os) ==
    /\ FirstIdleCaller(c)
    /\ i \in cfg.insts
    /\ storeUp
    /\ LET r == WarmRun(es, os, Len(es)) IN
       IF r.err
       THEN /\ callers' = [callers EXCEPT
                  ![c] = [Returned(c, i, "warm", es, <<>>, r.fetched)
                            EXCEPT !.out = "rejected", !.res = "fetchError"]]
            /\ UNCHANGED <<store, patIdx, tagIdx, local, countVars>>
       ELSE /\ SetManyWrites(i, r.toSet)
            /\ callers' = [callers EXCEPT
                  ![c] = Returned(c, i, "warm", es, r.toSet, r.fetched)]
    /\ UNCHANGED <<now, cfg, storeUp, outages, vers, vstore, pending, breakers,
                   tasks, errEvents>>
    /\ UNCHANGED harnessVars
    /\ UNCHANGED <<versExp, busVars>>

(***************************************************************************)
(* SpecBulk: calls of one instance on the two keys of the cache definition  *)
(* "post", made one after the other, in server and in serverless mode, with *)
(* no expiry in reach; the store is healthy.  A behaviour exercises one     *)
(* bulk operation: getMany after set and setMany (with and without a stale  *)
(* window), get after setMany, get after set and invalidateMany, or get     *)
(* after warm (with and without a fetch function; one call fewer).         *)
(***************************************************************************)
BulkConfigs ==
    [mode : {"server", "serverless"}, fetch : {FALSE}, dedupe : {TRUE},
     ttl : {TTL}, swr : {0, SwrTTL}, sliding : {FALSE}, tags : {FALSE},
     local : {TRUE}, insts : {{"A"}}, ncallers : {BulkCallers},
     keys : {{"j", "m"}}, prefix : {<<"p">>}, tagged : {{}},
     pubsub : {TRUE}, invalidates : {{}}, calls : {"getMany"}]
    \cup
    [mode : {"server", "serverless"}, fetch : BOOLEAN, dedupe : {TRUE},
     ttl : {0}, swr : {0}, sliding : {FALSE}, tags : {FALSE},
     local : {TRUE}, insts : {{"A"}}, ncallers : {BulkCallers},
     keys : {{"j", "m"}}, prefix : {<<"p">>}, tagged : {{}},
     pubsub : {TRUE}, invalidates : {{}},
     calls : {"setMany", "invalidateMany"}]
    \cup
    [mode : {"server", "serverless"}, fetch : BOOLEAN, dedupe : {TRUE},
     ttl : {0}, swr : {0}, sliding : {FALSE}, tags : {FALSE},
     local : {TRUE}, insts : {{"A"}}, ncallers : {BulkCallers - 1},
     keys : {{"j", "m"}}, prefix : {<<"p">>}, tagged : {{}},
     pubsub : {TRUE}, invalidates : {{}}, calls : {"warm"}]
\* what the fetch function settles with in warm()
WarmOutcomes == {"f1", "null", "fetchError"}

InitBulk == InitHarness /\ InitCache(BulkConfigs)

NextBulk ==
    \/ /\ cfg.calls \in {"getMany", "invalidateMany"} /\ NoCallRunning
       /\ \E c \in DOMAIN callers, k \in cfg.keys, v \in SetValues :
             SetStart(c, "A", k, v)
    \/ /\ cfg.calls # "getMany" /\ NoCallRunning
       /\ \E c \in DOMAIN callers, k \in cfg.keys : GetStart(c, "A", k)
    \/ /\ cfg.calls = "getMany" /\ NoCallRunning
       /\ \E c \in DOMAIN callers, ks \in KeyLists : GetMany(c, "A", ks)
    \/ /\ cfg.calls \in {"getMany", "setMany"} /\ NoCallRunning
       /\ \E c \in DOMAIN callers :
             \E es \in EntryLists(IF cfg.calls = "getMany" THEN {"v2"}
                                  ELSE NewValues) : SetMany(c, "A", es)
    \/ /\ cfg.calls = "invalidateMany" /\ NoCallRunning
       /\ \E c \in DOMAIN callers, ks \in KeyLists, top \in BOOLEAN :
             InvalidateMany(c, "A", ks, top)
    \/ /\ cfg.calls = "warm" /\ NoCallRunning
       /\ \E c \in DOMAIN callers, es \in EntryLists({"bare", "v1"}) :
             \E os \in [DOMAIN es -> WarmOutcomes] : Warm(c, "A", es, os)
    \/ \E c \in DOMAIN callers : StoreReadReply(c)
    \/ \E c \in DOMAIN callers : SlGetVersion(c)
    \/ \E c \in DOMAIN callers : SlGetPayload(c)
    \/ \E c \in DOMAIN callers : Resume(c)
    \/ \E t \in 1..MaxTasks : FetchSettle(t, "f2")
    \/ \E t \in 1..MaxTasks : TaskSetex(t)
    \/ \E t \in 1..MaxTasks : SlTaskVersion(t)
    \/ \E t \in 1..MaxTasks : SlTaskSetex(t)
    \/ \E t \in 1..MaxTasks : TaskIndex(t)

SpecBulk == InitBulk /\ [][NextBulk]_vars

(***************************************************************************)
(* SpecSetPub: two server-mode instances with LocalCache and pub/sub share  *)
(* the store and both are subscribed before the first call.  Calls are made *)
(* one after the other: set(k, v) with one of two values on A or B, get(k)  *)
(* on B, invalidate(k) on A.  Published messages are delivered in order.    *)
(***************************************************************************)
SetPubConfigs ==
    [mode : {"server"}, fetch : {FALSE}, dedupe : {TRUE},
     ttl : {0}, swr : {0}, sliding : {FALSE}, tags : {FALSE}, local : {TRUE},
     insts : {{"A", "B"}}, ncallers : {SetPubCallers},
     keys : {{"k"}}, prefix : {<<"p">>}, tagged : {{}},
     pubsub : {TRUE}, invalidates : {{}}]
\* setupPubSub() has completed on every instance
AllSubscribed == \A i \in cfg.insts : subscribed[i]

InitSetPub == InitHarness /\ InitCache(SetPubConfigs)

NextSetPub ==
    \/ \E i \in Inst : Subscribe(i)
    \/ \E c \in DOMAIN callers, i \in Inst, k \in cfg.keys, v \in NewValues :
          AllSubscribed /\ NoCallRunning /\ SetStart(c, i, k, v)
    \/ \E c \in DOMAIN callers, k \in cfg.keys :
          AllSubscribed /\ NoCallRunning /\ GetStart(c, "B", k)
    \/ \E c \in DOMAIN callers, k \in cfg.keys :
          AllSubscribed /\ NoCallRunning /\ Invalidate(c, "A", k)
    \/ \E c \in DOMAIN callers : StoreReadReply(c)
    \/ \E c \in DOMAIN callers : Resume(c)
    \/ \E t \in 1..MaxTasks : TaskSetex(t)
    \/ \E t \in 1..MaxTasks : TaskIndex(t)
    \/ \E i \in Inst : Deliver(i)

SpecSetPub == InitSetPub /\ [][NextSetPub]_vars
SpecSetPubFair == SpecSetPub /\ \A i \in Inst : WF_vars(Deliver(i))

(***************************************************************************)
(* close().  The subscriber connection is one ordered stream: the reply to  *)
(* UNSUBSCRIBE follows every message the store sent before it.              *)
(***************************************************************************)
\* close() has been called on instance i
Closing(i) ==
    \E c \in DOMAIN callers : callers[c].op = "close" /\ callers[c].inst = i

\* close() up to its first await: with pub/sub, pubsub.unsubscribe() is
\* issued (the store stops sending to i and replies); without, redis.quit()
CloseStartMutNoUnsubscribe(c, i) ==
    /\ FirstIdleCaller(c)
    /\ i \in cfg.insts
    /\ ~Closing(i)
    /\ callers' = [callers EXCEPT
          ![c] = [@ EXCEPT !.op = "close", !.inst = i, !.at = now,
                           !.pc = "cl_client"]]
    /\ UNCHANGED <<now, cfg, storeUp, outages, store, vers, vstore, patIdx,
                   tagIdx, local, pending, breakers, tasks, errEvents,
                   versExp, busVars, countVars>>
    /\ UNCHANGED harnessVars
CloseStart(c, i) ==
    /\ FirstIdleCaller(c)
    /\ i \in cfg.insts
    /\ ~Closing(i)
    /\ IF cfg.pubsub /\ cfg.mode = "server"
       THEN /\ subscribed' = [subscribed EXCEPT ![i] = FALSE]
            /\ bus' = [bus EXCEPT
                  ![i] = Append(@, [kind |-> "unsubscribed", keys |-> {},
                                    by |-> c])]
            /\ callers' = [callers EXCEPT
                  ![c] = [@ EXCEPT !.op = "close", !.inst = i, !.at = now,
                                   !.pc = "cl_unsubscribe"]]
       ELSE /\ callers' = [callers EXCEPT
                  ![c] = [@ EXCEPT !.op = "close", !.inst = i, !.at = now,
                                   !.pc = "cl_client"]]
            /\ UNCHANGED <<subscribed, bus>>
    /\ UNCHANGED <<now, cfg, storeUp, outages, store, vers, vstore, patIdx,
                   tagIdx, local, pending, breakers, tasks, errEvents,
                   versExp, invEvents, countVars>>
    /\ UNCHANGED harnessVars

\* close(), lines 303-309: the awaited call settles and the next is issued:
\* unsubscribe(), redis.quit(), subscriber.quit(), publisher.quit(), return
CloseStep(c) ==
    /\ callers[c].op = "close"
    /\ LET i == callers[c].inst
           pc == callers[c].pc
       IN
       IF pc = "cl_unsubscribe"
       THEN /\ bus[i] # <<>> /\ Head(bus[i]).kind = "unsubscribed"
            /\ bus' = [bus EXCEPT ![i] = Tail(@)]
            /\ callers' = [callers EXCEPT ![c].pc = "cl_client"]
       ELSE /\ pc \in {"cl_client", "cl_subscriber", "cl_publisher"}
            /\ callers' = [callers EXCEPT
                  ![c] = IF pc = "cl_client" THEN [@ EXCEPT !.pc = "cl_subscriber"]
                         ELSE IF pc = "cl_subscriber"
                         THEN [@ EXCEPT !.pc = "cl_publisher"]
                         ELSE [@ EXCEPT !.pc = "done", !.out = "resolved"]]
            /\ UNCHANGED bus
    /\ UNCHANGED <<now, cfg, storeUp, outages, store, vers, vstore, patIdx,
                   tagIdx, local, pending, breakers, tasks, errEvents,
                   versExp, subscribed, invEvents, countVars>>
    /\ UNCHANGED harnessVars

(***************************************************************************)
(* SpecClose: the two instances of SpecPubSub; set on B, invalidations on  *)
(* A and close on either instance.  A call is made when no call other than *)
(* a close is in progress, and none on an instance that is being closed.   *)
(* Nothing is delivered over a subscriber connection that has quit.        *)
(***************************************************************************)
NextClose ==
    LET free == \A d \in DOMAIN callers :
                   callers[d].pc \in {"idle", "done"} \/ callers[d].op = "close"
        open(i) == \A c \in DOMAIN callers :
                      (callers[c].op = "close" /\ callers[c].inst = i)
                      => callers[c].pc \in {"cl_unsubscribe", "cl_client",
                                            "cl_subscriber"}
    IN
    \/ \E c \in DOMAIN callers, k \in cfg.keys, v \in SetValues :
          free /\ ~Closing("B") /\ SetStart(c, "B", k, v)
    \/ \E c \in DOMAIN callers, k \in cfg.keys :
          free /\ ~Closing("A") /\ Invalidate(c, "A", k)
    \/ \E c \in DOMAIN callers, t \in Tags :
          free /\ ~Closing("A") /\ InvalidateTag(c, "A", t)
    \/ \E c \in DOMAIN callers, i \in Inst : free /\ CloseStart(c, i)
    \/ \E c \in DOMAIN callers : CloseStep(c)
    \/ \E c \in DOMAIN callers : Resume(c)
    \/ \E t \in 1..MaxTasks : TaskSetex(t)
    \/ \E t \in 1..MaxTasks : TaskIndex(t)
    \/ \E i \in Inst : ~Closing(i) /\ Subscribe(i)
    \/ \E i \in Inst : open(i) /\ Deliver(i)

SpecClose == InitPubSub /\ [][NextClose]_vars

(***************************************************************************)
(* LocalCache on its own: an lru-cache with max entries.  slots holds the  *)
(* entries from the least to the most recently used; ins (history) the     *)
(* keys held, from the least to the most recently set.                     *)
(***************************************************************************)
\* new LocalCache({maxSize: n}): max is config.maxSize || 1000
LcNew(n) ==
    /\ lcache.ops = 0 /\ lcache.last.op = "none"
    /\ lcache' = [lcache EXCEPT
          !.max = IF n = 0 THEN DefaultMaxSize ELSE n,
          !.last = [op |-> "new", key |-> "none"]]
    /\ UNCHANGED <<now, breaker, calls, nexec, errorLog, lastEv, consecFail,
                   hoSucc, hoStarts>>
    /\ UNCHANGED cacheVars

\* LocalCache.set(key, value): lru-cache makes the entry the most recently
\* used one, after evicting the least recently used one when a new key meets
\* a full cache
LcSet(k, v) ==
    /\ lcache.ops < MaxOps
    /\ LET held == {lcache.slots[n].key : n \in DOMAIN lcache.slots}
           rest == SelectSeq(lcache.slots, LAMBDA s : s.key # k)
           kept == IF k \notin held /\ Len(lcache.slots) >= lcache.max
                   THEN Tail(rest) ELSE rest
           gone == held \ ({kept[n].key : n \in DOMAIN kept} \cup {k})
       IN
       lcache' = [lcache EXCEPT
          !.slots = Append(kept, [key |-> k, val |-> v]),
          !.ins = Append(SelectSeq(lcache.ins,
                                   LAMBDA x : x # k /\ x \notin gone), k),
          !.ops = @ + 1,
          !.last = [op |-> "set", key |-> k]]
    /\ UNCHANGED <<now, breaker, calls, nexec, errorLog, lastEv, consecFail,
                   hoSucc, hoStarts>>
    /\ UNCHANGED cacheVars

\* LocalCache.get(key): lru-cache makes an entry it finds the most recently
\* used one; updateAgeOnGet: false only keeps the entry's ttl clock
LcGet(k) ==
    /\ lcache.ops < MaxOps
    /\ LET hit == SelectSeq(lcache.slots, LAMBDA s : s.key = k)
           rest == SelectSeq(lcache.slots, LAMBDA s : s.key # k)
       IN
       lcache' = [lcache EXCEPT
          !.slots = rest \o hit,
          !.ops = @ + 1,
          !.last = [op |-> "get", key |-> k]]
    /\ UNCHANGED <<now, breaker, calls, nexec, errorLog, lastEv, consecFail,
                   hoSucc, hoStarts>>
    /\ UNCHANGED cacheVars

\* LocalCache.delete(key)
LcDelete(k) ==
    /\ lcache.ops < MaxOps
    /\ lcache' = [lcache EXCEPT
          !.slots = SelectSeq(lcache.slots, LAMBDA s : s.key # k),
          !.ins = SelectSeq(lcache.ins, LAMBDA x : x # k),
          !.ops = @ + 1,
          !.last = [op |-> "delete", key |-> k]]
    /\ UNCHANGED <<now, breaker, calls, nexec, errorLog, lastEv, consecFail,
                   hoSucc, hoStarts>>
    /\ UNCHANGED cacheVars

(***************************************************************************)
(* SpecLocal: a LocalCache is constructed with the default or a small      *)
(* maxSize and set, get and delete are called on it.                       *)
(***************************************************************************)
NextLocal ==
    \/ \E n \in 0..MaxSize : LcNew(n)
    \/ \E k \in Keys, v \in SetValues : lcache.last.op # "none" /\ LcSet(k, v)
    \/ \E k \in Keys : lcache.last.op # "none" /\ LcGet(k)
    \/ \E k \in Keys : lcache.last.op # "none" /\ LcDelete(k)

SpecLocal == InitCB /\ [][NextLocal]_vars

(***************************************************************************)
(* Claims about set() and the pub/sub channel, checked under SpecSetPubFair *)
(***************************************************************************)
\* the value set call d was called with
ValueOf(d) == tasks[callers[d].task].val
\* call d is the last call before c that wrote or invalidated key k
LastWrite(d, c, k) ==
    /\ d < c /\ callers[d].key = k
    /\ callers[d].op \in {"set", "invalidate"}
    /\ \A e \in (d + 1)..(c - 1) :
          ~(callers[e].key = k /\ callers[e].op \in {"set", "invalidate"})
\* the step in which set call c returns
SetReturns(c) ==
    callers[c].op = "set" /\ callers[c].pc = "set_wait" /\ callers'[c].pc = "done"

\* call c is a get of instance i that starts in this step
GetStartStep(c, i) ==
    callers[c].pc = "idle" /\ callers'[c].op = "get" /\ callers'[c].inst = i

\* C21 (as claimed): a server-mode set(k, v) that returns has put a key
\* invalidation for k on the way to every other subscribed instance that
\* holds a LocalCache copy of k; and a get(k) on B that starts with no message
\* on its way to B, after a set(k, v) on A that was the last write of k, finds
\* no other value than v in B's LocalCache and, when it returns at once,
\* returns v.
C21_SetPublishesToPeers ==
    /\ [][\A c \in DOMAIN callers :
            (SetReturns(c) /\ callers'[c].out = "resolved")
            => \A i \in Subscribers \ {callers[c].inst} :
                  \/ local'[i][callers[c].key] = NoSlot
                  \/ \E n \in 1..Len(bus'[i]) :
                        callers[c].key \in bus'[i][n].keys]_vars
    /\ [][\A c \in DOMAIN callers : \A d \in DOMAIN callers :
            (/\ GetStartStep(c, "B") /\ bus["B"] = <<>>
             /\ LastWrite(d, c, callers'[c].key)
             /\ callers[d].op = "set" /\ callers[d].inst = "A")
            => /\ LocalGet("B", callers'[c].key).val \in {"absent", ValueOf(d)}
               /\ callers'[c].pc = "done" => callers'[c].res = ValueOf(d)]_vars

(***************************************************************************)
(* SpecCascade: set, get and invalidate calls of one server-mode instance   *)
(* with LocalCache on three keys, made one after the other, with the        *)
(* cascading invalidation of "j" by "k" and of "m" by "j", or none; the     *)
(* store is healthy.                                                        *)
(***************************************************************************)
CascadeConfigs ==
    [mode : {"server"}, fetch : {FALSE}, dedupe : {TRUE},
     ttl : {0}, swr : {0}, sliding : {FALSE}, tags : {FALSE}, local : {TRUE},
     insts : {{"A"}}, ncallers : {CascadeCallers},
     keys : {{"k", "j", "m"}}, prefix : {<<"p">>}, tagged : {{}},
     pubsub : {TRUE}, invalidates : {{}, {<<"k", "j">>, <<"j", "m">>}}]

InitCascade == InitHarness /\ InitCache(CascadeConfigs)

NextCascade ==
    \/ \E c \in DOMAIN callers, k \in cfg.keys, v \in SetValues :
          NoCallRunning /\ SetStart(c, "A", k, v)
    \/ \E c \in DOMAIN callers, k \in cfg.keys :
          NoCallRunning /\ GetStart(c, "A", k)
    \/ \E c \in DOMAIN callers, k \in cfg.keys :
          NoCallRunning /\ Invalidate(c, "A", k)
    \/ \E c \in DOMAIN callers : StoreReadReply(c)
    \/ \E c \in DOMAIN callers : Resume(c)
    \/ \E t \in 1..MaxTasks : TaskSetex(t)
    \/ \E t \in 1..MaxTasks : TaskIndex(t)

SpecCascade == InitCascade /\ [][NextCascade]_vars

(***************************************************************************)
(* Claims about cascading invalidation                                     *)
(***************************************************************************)
\* C22 (as claimed), checked under SpecPubSubFair: a server-mode
\* invalidate(k) puts, for every key its 'invalidates' mapping names, a key
\* invalidation that carries that key on the way to every subscribed
\* instance; and every other instance that was subscribed eventually holds
\* none of the cascaded keys in its LocalCache, unless a later call intervenes.
C22_CascadePublished ==
    /\ [][\A c \in DOMAIN callers :
            (InvalidationStep(c, "invalidate") /\ cfg.mode = "server")
            => \A x \in Cascade(cfg, callers'[c].key) :
                  \A i \in Subscribers :
                     \E n \in 1..Len(bus'[i]) :
                        /\ bus'[i][n].by = c /\ bus'[i][n].kind = "key"
                        /\ x \in bus'[i][n].keys]_vars
    /\ \A c \in 1..PubSubCallers : \A i \in Inst \ {"A"} :
          (PublishedTo(c, i) /\ callers[c].op = "invalidate")
          ~> \/ \A x \in Cascade(cfg, callers[c].key) : local[i][x] = NoSlot
             \/ LaterCall(c)

\* C23, checked under SpecCascade: a server-mode invalidate(k) on instance A
\* leaves the store and A's LocalCache without k and without the keys the
\* 'invalidates' mapping yields for k, and leaves every other key as it was,
\* the keys named by the mappings of the cascaded keys included.
C23_CascadeOneLevel ==
    [][\A c \in DOMAIN callers :
          (InvalidationStep(c, "invalidate") /\ cfg.mode = "server")
          => LET k == callers'[c].key
                 i == callers'[c].inst
                 gone == {k} \cup {x \in Keys : <<k, x>> \in cfg.invalidates}
             IN  \A x \in Keys :
                    IF x \in gone
                    THEN store'[x] = Absent /\ local'[i][x] = NoSlot
                    ELSE /\ store'[x] = store[x]
                         /\ \A h \in Inst : local'[h][x] = local[h][x]]_vars
\* invalidate(k) has removed the cascaded key j while m, which j's own mapping
\* names, is still in the store and in LocalCache
C23_Witness ==
    /\ <<"k", "j">> \in cfg.invalidates /\ <<"j", "m">> \in cfg.invalidates
    /\ \E c \in DOMAIN callers :
          /\ callers[c].op = "invalidate" /\ callers[c].key = "k"
          /\ callers[c].pc = "done" /\ callers[c].removed = {"k", "j"}
          /\ \E d \in 1..(c - 1) : callers[d].op = "set" /\ callers[d].key = "j"
    /\ store["j"] = Absent /\ local["A"]["j"] = NoSlot
    /\ store["m"].val = "v1" /\ local["A"]["m"].ent.val = "v1"

(***************************************************************************)
(* Claims about the bulk operations, checked under SpecBulk, where the     *)
(* calls are made one after the other in the order of their numbers.       *)
(***************************************************************************)
BulkWrites == {"setMany", "warm"}
BulkRemovals == {"invalidateMany", "cacheInvalidateMany"}
\* call d stored a payload for key x, and the payload it stored
WritesKey(d, x) ==
    \/ callers[d].op = "set" /\ callers[d].key = x
    \/ callers[d].op = "get" /\ callers[d].key = x /\ callers[d].src = "fetch"
    \/ callers[d].op \in BulkWrites /\ x \in KeysOf(callers[d].many)
WrittenValue(d, x) ==
    IF callers[d].op = "set" THEN ValueOf(d)
    ELSE IF callers[d].op \in BulkWrites THEN LastValue(callers[d].many, x)
    ELSE callers[d].res
\* call d is a bulk invalidation that lists key x
RemovesKey(d, x) == callers[d].op \in BulkRemovals /\ x \in callers[d].removed
\* call d is the last call before c that stored or invalidated key x
LastTouch(d, c, x) ==
    /\ d < c /\ (WritesKey(d, x) \/ RemovesKey(d, x))
    /\ \A e \in (d + 1)..(c - 1) : ~(WritesKey(e, x) \/ RemovesKey(e, x))
\* the payload stored for key x when call c is made, "null" when there is none
StoredFor(c, x) ==
    IF \E d \in DOMAIN callers : LastTouch(d, c, x) /\ WritesKey(d, x)
    THEN WrittenValue(CHOOSE d \in DOMAIN callers : LastTouch(d, c, x), x)
    ELSE "null"

\* C24 (as claimed): getMany(keys) returns a list as long as keys whose n-th
\* element is the payload last stored for the n-th key by set or setMany, or
\* null when nothing is stored for it.
C24_GetManyInOrder ==
    \A c \in DOMAIN callers :
        (callers[c].op = "getMany" /\ callers[c].pc = "done")
        => /\ callers[c].out = "resolved"
           /\ Len(callers[c].many) = Len(callers[c].args)
           /\ \A n \in DOMAIN callers[c].args :
                 callers[c].many[n] = StoredFor(c, callers[c].args[n])

\* C25 (as claimed): a get whose key was last written by a setMany returns the
\* value of that key's entry and does not invoke the fetch function, in
\* server mode and in serverless mode.
C25_GetAfterSetMany ==
    \A c \in DoneGets : \A d \in DOMAIN callers :
        (LastTouch(d, c, callers[c].key) /\ callers[d].op = "setMany")
        => /\ callers[c].out = "resolved"
           /\ callers[c].res = WrittenValue(d, callers[c].key)
           /\ callers[c].src # "fetch"

\* call c is a bulk invalidation made in this step
BulkRemovalStep(c) == callers[c].pc = "idle" /\ callers'[c].op \in BulkRemovals

\* C26 (as claimed): invalidateMany(keys), of a cache definition or of the
\* cache, leaves every key it does not list untouched, and a get of a key that
\* was last touched by an invalidateMany that lists it misses, in server mode
\* and in serverless mode.
C26_InvalidateManyRemovesListed ==
    /\ [][\A c \in DOMAIN callers :
            BulkRemovalStep(c)
            => \A x \in Keys : x \notin callers'[c].removed => Untouched(x)]_vars
    /\ [](\A c \in DoneGets : \A d \in DOMAIN callers :
            (LastTouch(d, c, callers[c].key) /\ RemovesKey(d, callers[c].key))
            => Missed(c))

\* the entries of es that come without a value
BareEntries(es) == {n \in DOMAIN es : es[n].val = "bare"}

\* C27 (as claimed): a warm(entries) that returns has stored every entry that
\* came with a value and, with a fetch function, has invoked it once per
\* entry without one and stored what it yielded; and a get whose key was last
\* written by a warm returns the warmed value without invoking the fetch
\* function.
C27_WarmStoresAndServes ==
    /\ \A c \in DOMAIN callers :
          (callers[c].op = "warm" /\ callers[c].out = "resolved")
          => /\ cfg.fetch
                => callers[c].fetched = Cardinality(BareEntries(callers[c].args))
             /\ \A n \in DOMAIN callers[c].args \ BareEntries(callers[c].args) :
                   callers[c].args[n].key \in KeysOf(callers[c].many)
    /\ \A c \in DoneGets : \A d \in DOMAIN callers :
          (LastTouch(d, c, callers[c].key) /\ callers[d].op = "warm")
          => /\ callers[c].out = "resolved"
             /\ callers[c].res = WrittenValue(d, callers[c].key)
             /\ callers[c].src # "fetch"

(***************************************************************************)
(* Claims about Deduplicator, checked under SpecGet                        *)
(***************************************************************************)
\* task t was started by Deduplicator.run and has not settled
RunInFlight(t) == tasks[t].reg /\ ~Settled(t)

\* C28: the pending map of an instance holds, for a key, exactly the function
\* that Deduplicator.run started for it and that has not settled yet, whether
\* it then resolves or rejects; so the map is empty whenever no such function
\* is in flight, and a get that enters run never awaits a function that has
\* already settled.
C28_PendingClearedOnSettle ==
    /\ [](\A i \in Inst : \A k \in Keys :
            pending[i][k] # 0
            => /\ pending[i][k] \in DOMAIN tasks
               /\ RunInFlight(pending[i][k])
               /\ tasks[pending[i][k]].inst = i /\ tasks[pending[i][k]].key = k)
    /\ [](\A t \in DOMAIN tasks :
            RunInFlight(t) => pending[tasks[t].inst][tasks[t].key] = t)
    /\ [][\A c \in DOMAIN callers :
            (callers[c].pc = "p_read" /\ callers'[c].pc = "p_wait")
            => tasks'[callers'[c].task].stage \notin {"done", "failed"}]_vars
\* a function started by run has failed, its registration is gone, and a later
\* get has entered run for the same key and awaits a newly started function
C28_Witness ==
    \E t \in DOMAIN tasks : \E u \in DOMAIN tasks : \E c \in DOMAIN callers :
        /\ tasks[t].reg /\ tasks[t].stage = "failed"
        /\ u > t /\ RunInFlight(u) /\ tasks[u].key = tasks[t].key
        /\ tasks[u].inst = tasks[t].inst
        /\ pending[tasks[u].inst][tasks[u].key] = u
        /\ callers[c].pc = "p_wait" /\ callers[c].task = u

(***************************************************************************)
(* Claims about close(), checked under SpecClose                           *)
(***************************************************************************)
\* close call c has released a connection: a quit() it issued has settled
Released(c) ==
    callers[c].op = "close" /\ callers[c].pc \in {"cl_subscriber", "cl_publisher", "done"}

\* C29: close() issues redis.quit() only after its unsubscribe() has settled,
\* when the instance is no longer subscribed and every message sent to it has
\* been handled; it then quits the client, the subscriber and the publisher
\* connection in this order and returns; and once it has returned nothing
\* changes the instance's LocalCache or emits an 'invalidate' event on it.
C29_CloseUnsubscribesFirst ==
    /\ [](\A c \in DOMAIN callers :
            (callers[c].op = "close" /\ callers[c].pc # "cl_unsubscribe")
            => ~subscribed[callers[c].inst] /\ bus[callers[c].inst] = <<>>)
    /\ [][\A c \in DOMAIN callers :
            (callers[c].op = "close" /\ callers'[c].pc # callers[c].pc)
            => <<callers[c].pc, callers'[c].pc>> \in
                  {<<"cl_unsubscribe", "cl_client">>,
                   <<"cl_client", "cl_subscriber">>,
                   <<"cl_subscriber", "cl_publisher">>,
                   <<"cl_publisher", "done">>}]_vars
    /\ [][\A c \in DOMAIN callers :
            (callers[c].op = "close" /\ callers[c].pc = "done")
            => /\ local'[callers[c].inst] = local[callers[c].inst]
               /\ invEvents'[callers[c].inst] = invEvents[callers[c].inst]]_vars
\* close() on B has returned after a message published by A was handled while
\* it awaited unsubscribe(), and an invalidation A published afterwards has
\* left the copy in B's LocalCache alone
C29_Witness ==
    \E c \in DOMAIN callers : \E d \in DOMAIN callers : \E e \in DOMAIN callers :
        /\ callers[c].op = "close" /\ callers[c].inst = "B"
        /\ callers[c].pc = "done"
        /\ d < c /\ callers[d].op \in InvalidationOps /\ "B" \in callers[d].subs
        /\ Observed(d, "B")
        /\ e > c /\ callers[e].op \in InvalidationOps
        /\ callers[e].removed # {} /\ callers[e].subs = {"A"}

(***************************************************************************)
(* Claims about LocalCache, checked under SpecLocal                        *)
(***************************************************************************)
\* the keys LocalCache holds
HeldKeys == {lcache.slots[n].key : n \in DOMAIN lcache.slots}
\* the key a set() of a new key would evict from the full cache
EvictedNext == Head(lcache.slots).key

\* C30 (as claimed): LocalCache never holds more than max entries; a set of
\* a new key into a full cache removes the key that was set the longest ago
\* and no other; and a get leaves the key that is evicted next the same.
C30_BoundedInsertionOrderEviction ==
    /\ [](Len(lcache.slots) <= lcache.max)
    /\ [][(/\ lcache'.ops = lcache.ops + 1 /\ lcache'.last.op = "set"
           /\ lcache'.last.key \notin HeldKeys
           /\ Len(lcache.slots) = lcache.max)
          => HeldKeys' = (HeldKeys \ {Head(lcache.ins)}) \cup {lcache'.last.key}]_vars
    /\ [][(/\ lcache'.ops = lcache.ops + 1 /\ lcache'.last.op = "get"
           /\ lcache.slots # <<>>)
          => EvictedNext' = EvictedNext]_vars

(***************************************************************************)
(* Claims about the persisted key layout, checked under SpecInv.           *)
(***************************************************************************)
\* C31 (as claimed): in serverless mode the store holds the version counter
\* of the logical key {prefix}:{name}:{instanceKey} under
\* {prefix}:version:{prefix}:{name}:{instanceKey} and its payload at version
\* N under {prefix}:{name}:{instanceKey}:v{N}, and nothing else.
C31_ServerlessKeyLayout ==
    cfg.mode = "serverless"
    => PhysicalKeys =
          {cfg.prefix \o <<"version">> \o cfg.prefix
              \o <<NameOf(k), PartOf(k)>> :
                 k \in {x \in Keys : VersionGet(x) # -1}}
          \cup {cfg.prefix \o <<NameOf(p[1]), PartOf(p[1]),
                                "v" \o ToString(p[2])>> :
                 p \in {q \in Keys \X Versions :
                           Live(vstore[q[1]][q[2]], now)}}

(***************************************************************************)
(* Claims about the stored record, checked under SpecWrap.                 *)
(***************************************************************************)
\* the executions of set(): called directly, or by fetchAndCache()
SetTasks == {t \in DOMAIN tasks : tasks[t].kind \in {"set", "fetch", "bg"}}
\* the step in which set() execution t builds its record: its first step
BuildStep(t) ==
    /\ t \in DOMAIN tasks' /\ tasks'[t].kind \in {"set", "fetch", "bg"}
    /\ tasks'[t].ent # Absent
    /\ (t \notin DOMAIN tasks \/ tasks[t].ent = Absent)
\* the step in which set() execution t writes its record to the store
WriteStep(t) ==
    /\ t \in SetTasks /\ tasks[t].stage \in {"setex", "sl_setex"}
    /\ tasks'[t].stage = "track"
\* the record the store received in that step
Written(t) ==
    IF cfg.mode = "serverless" THEN vstore'[tasks[t].key][tasks[t].ver]
    ELSE store'[tasks[t].key]

\* C32: with a ttl T and a stale window S configured, the record set()
\* builds at time t0 carries freshUntil = t0 + T and staleUntil =
\* freshUntil + S, hence freshUntil <= staleUntil, and is written with a
\* store expiry of T + S; a record stored without timestamps is served by
\* every get that finds it, whatever the time, and no fetch is started.
C32_WrappedRecordTimestamps ==
    [][/\ \A t \in 1..MaxTasks :
            /\ (BuildStep(t) /\ cfg.swr > 0)
               => /\ tasks'[t].ent.meta
                  /\ tasks'[t].ent.expiresAt = now + cfg.ttl
                  /\ tasks'[t].ent.staleUntil =
                         tasks'[t].ent.expiresAt + cfg.swr
                  /\ tasks'[t].ent.expiresAt <= tasks'[t].ent.staleUntil
            /\ (BuildStep(t) /\ cfg.swr = 0) => ~tasks'[t].ent.meta
            /\ WriteStep(t)
               => /\ [Written(t) EXCEPT !.exp = -1] = tasks[t].ent
                  /\ Written(t).exp = now + cfg.ttl + cfg.swr
       /\ \A c \in SWRGets :
            /\ (StoreConsultStep(c) /\ StoreFound(c).val # "absent"
                   /\ ~StoreFound(c).meta)
               => /\ tasks' = tasks
                  /\ callers'[c].pc = "done" /\ callers'[c].task = 0
                  /\ callers'[c].res = StoreFound(c).val
            /\ (LocalConsultStep(c) /\ cfg.mode = "server"
                   /\ LocalFound(c).val # "absent" /\ ~LocalFound(c).meta)
               => /\ tasks' = tasks
                  /\ callers'[c].pc = "done" /\ callers'[c].task = 0
                  /\ callers'[c].res = LocalFound(c).val
            /\ (callers[c].pc = "sl_read" /\ callers'[c].pc # "sl_read"
                   /\ Live(vstore[callers[c].key][callers[c].ver], now)
                   /\ ~vstore[callers[c].key][callers[c].ver].meta)
               => /\ tasks' = tasks
                  /\ callers'[c].pc = "done"
                  /\ callers'[c].res =
                         vstore[callers[c].key][callers[c].ver].val
      ]_vars
\* reached: the store holds the wrapped record of the completed set, written
\* after the clock had moved on from the time the record was built, and a get
\* of a later time was served from it
C32_Witness ==
    /\ cfg.mode = "server" /\ cfg.swr > 0
    /\ callers[1].op = "set" /\ callers[1].pc = "done"
    /\ store["k"].meta
    /\ store["k"].expiresAt = callers[1].at + cfg.ttl
    /\ store["k"].exp > store["k"].staleUntil
    /\ \E c \in DoneGets :
          /\ callers[c].src = "store" /\ callers[c].served.meta
          /\ callers[c].at > callers[1].at

(***************************************************************************)
(* Claims about the half-open breaker, checked under SpecCB.               *)
(***************************************************************************)
\* C33 (as claimed): while the breaker is half-open, at most
\* HalfOpenRequests primary calls have been started since it entered
\* half-open.
C33_HalfOpenAdmitsLimited ==
    breaker.state = "half-open" => hoStarts <= HalfOpenRequests

(***************************************************************************)
(* Claims about glob patterns, checked under SpecGlob.                     *)
(***************************************************************************)
\* key x has an entry: a payload a get would find
HasEntry(x) ==
    IF cfg.mode = "serverless"
    THEN Live(vstore[x][IF VersionGet(x) = -1 THEN 0 ELSE VersionGet(x)], now)
    ELSE Live(store[x], now)
\* the pattern of the call names the cache of key x and matches the text of
\* x's key after the store prefix
GlobSelects(pat, x) ==
    pat[1] = NameOf(x) /\ Glob(pat, Join(<<NameOf(x), PartOf(x)>>))

\* C34 (as claimed): invalidatePattern(pattern) removes the entry of every
\* key of the cache the pattern names whose key text after the store prefix
\* matches the glob, and leaves every other key untouched.
C34_GlobRemovesExactlyMatches ==
    [][\A c \in DOMAIN callers :
         InvalidationStep(c, "invalidatePattern")
         => \A x \in Keys :
               IF GlobSelects(callers'[c].arg, x)
               THEN HasEntry(x) => ~HasEntry(x)'
               ELSE Untouched(x)]_vars

(***************************************************************************)
(* Claims about get() and the breaker, checked under SpecGet.              *)
(***************************************************************************)
\* the step in which get call c learns that the fetch it awaits inside
\* primary has failed
FetchFailureStep(c) ==
    /\ callers[c].pc = "p_wait" /\ callers'[c].pc # "p_wait"
    /\ tasks[callers[c].task].err = "fetchError"

\* C35 (as claimed): a failure of the fetch function while the store is
\* healthy leaves the breaker's state and failure count unchanged, and as
\* long as the store has never failed the breaker stays closed with no
\* failure counted.
C35_FetchFailureNotBreakerFailure ==
    /\ [][\A c \in DOMAIN callers :
            (FetchFailureStep(c) /\ storeUp)
            => /\ breakers'[callers[c].inst].state =
                     breakers[callers[c].inst].state
               /\ breakers'[callers[c].inst].failures =
                     breakers[callers[c].inst].failures]_vars
    /\ [](outages = 0
            => \A i \in Inst : /\ breakers[i].state = "closed"
                                /\ breakers[i].failures = 0)

\* C36 (as claimed): a get call invokes the fetch function at most once.
C36_GetFetchesAtMostOnce ==
    \A c \in DOMAIN callers : callers[c].op = "get" => callers[c].fetched <= 1

(***************************************************************************)
(* Claims about concurrent calls in serverless mode, checked under         *)
(* SpecRace.                                                               *)
(***************************************************************************)
\* VersionedCache.get, line 18: the version get resolves for key k
ResolvedVersion(k) == IF VersionGet(k) = -1 THEN 0 ELSE VersionGet(k)

\* C37 (as claimed): in serverless mode the version that get resolves for a
\* key never goes back to a value it had before an invalidate: it never
\* decreases, whatever the interleaving of set and invalidate calls and also
\* when 24 hours pass.
C37_ResolvedVersionNeverGoesBack ==
    [][cfg.mode = "serverless"
         => \A k \in Keys : ResolvedVersion(k)' >= ResolvedVersion(k)]_vars

(***************************************************************************)
(* Claims about a get in flight during an invalidation, checked under      *)
(* SpecLate.                                                               *)
(***************************************************************************)
\* call d is a completed invalidate(k) on A whose broadcast B has handled,
\* and no set(k) was issued after it
HandledInvalidate(d, k) ==
    /\ callers[d].op = "invalidate" /\ callers[d].key = k
    /\ callers[d].inst = "A" /\ callers[d].pc = "done"
    /\ Observed(d, "B")
    /\ \A e \in DOMAIN callers :
          (e > d /\ callers[e].op = "set") => callers[e].key # k

\* C38 (as claimed): once invalidate(k) on A has completed and B has handled
\* its broadcast, with no set(k) issued since, B's LocalCache holds no value
\* for k, also when a get(k) of B was in flight during the invalidation.
C38_NoPreInvalidationValueInLocal ==
    \A k \in Keys :
        (\E d \in DOMAIN callers : HandledInvalidate(d, k))
        => LocalGet("B", k).val = "absent"

(***************************************************************************)
(* Claims about the tag index, checked under SpecTagRace.                  *)
(***************************************************************************)
\* C39 (as claimed): whenever no call is in progress, every key that has an
\* entry in the store and carries tag t is a member of t's tag set.
C39_TagIndexComplete ==
    NoCallRunning
    => \A k \in Keys : \A t \in TagsOf(cfg, k) :
          HasEntry(k) => k \in GetKeysByTag(tagIdx, t)

(***************************************************************************)
(* Claims about the round trip of a value, checked under SpecRoundTrip.    *)
(***************************************************************************)
\* C40 (as claimed): a get(k) made after set(k, v) has returned, and that
\* returns before the ttl has elapsed since the set was called, resolves
\* with v, for every value and configuration, in server and in serverless
\* mode.
C40_RoundTripReturnsValue ==
    [][\A c \in SWRGets :
         (/\ ReturnStep(c) /\ callers'[c].afterSet
          /\ callers[1].op = "set" /\ callers[1].out = "resolved"
          /\ now < callers[1].at + cfg.ttl)
         => /\ callers'[c].out = "resolved"
            /\ callers'[c].res = tasks[callers[1].task].val]_vars

====
